---- MODULE Spec2Model ----
(***************************************************************************)
(* Model of the document structuring pipeline of youtube-to-text:          *)
(* DocumentFormatter (src/src/formatter/document_formatter.py),            *)
(* AIOptimizer (src/src/optimizer/ai_optimizer.py), the prompt templates   *)
(* (src/src/optimizer/prompt_templates.py) and the batch loop of           *)
(* YouTubeToTextProcessor (src/main.py).                                   *)
(*                                                                         *)
(* A Python str is a sequence of characters.  A character is a one-element *)
(* TLA+ string; characters outside ASCII are written by code point:        *)
(*   "U+3002" full stop            "U+FF01" exclamation  "U+FF1F" question *)
(*   "U+FF0C" fullwidth comma      "U+3001" enumeration comma              *)
(*   "U+FF0E" fullwidth dot        "U+FF08"/"U+FF09" fullwidth parentheses *)
(*   "U+3000" ideographic space    "U+2022" bullet                         *)
(*   "U+7B2C" di (ordinal prefix)  "U+7AE0" zhang (chapter)                *)
(*   "U+8282" jie (section)        "U+90E8" bu, "U+5206" fen (part)        *)
(*   "U+4E00".. the ten numerals   "U+76EE","U+5F55" mu lu (contents)      *)
(*   "U+8FD9","U+662F" zhe shi (this is)  "U+6BB5" duan (paragraph)         *)
(*   "U+5185","U+5BB9" nei rong (content)                                  *)
(*   "U+6D4B","U+8BD5" ce shi (test)  "U+6587","U+6863" wen dang (document)*)
(*   "U+8F6C" zhuan (with "U+5F55": transcription)                         *)
(***************************************************************************)
EXTENDS Integers, Sequences, FiniteSets, TLC

VARIABLES
    pc,                 \* position in the method under way
    text,               \* format_transcript: text
    title,              \* format_transcript: title
    cleaned_text,       \* format_transcript: cleaned_text (the text of _split_paragraphs)
    sentences,          \* _split_paragraphs: sentences
    next_sentence,      \* _split_paragraphs: position of the for loop in sentences
    current_paragraph,  \* _split_paragraphs: current_paragraph
    paragraphs,         \* _split_paragraphs: paragraphs (format_transcript: paragraphs)
    structure,          \* format_transcript: structure
    formatted_text,     \* format_transcript: formatted_text
    api_key,            \* AIOptimizer: self.api_key
    processed_text,     \* optimize_text: processed_text (the text of _call_ai_optimization)
    requests,           \* number of requests.post calls issued so far
    response,           \* _call_ai_optimization: outcome of requests.post
    optimized_text,     \* optimize_text: optimized_text (what _call_ai_optimization returned)
    final_text,         \* optimize_text: final_text
    source,             \* the text argument of format_transcript / optimize_text
    writes,             \* the files written so far, in order: [path, content]
    returned,           \* what format_transcript / optimize_text returned
    style,              \* get_prompt_template: style
    template,           \* what get_prompt_template returned
    prompt,             \* prompt.format(text=text)
    config,             \* YouTubeToTextProcessor: the two switches of self.config
    queue,              \* process_multiple_videos: input_paths not yet processed
    transcript,         \* _perform_transcription: transcript_result
    steps,              \* _perform_transcription: result['steps']
    success,            \* _perform_transcription: result['success']
    results             \* process_multiple_videos: results

formatter_vars == <<text, title, cleaned_text, sentences, next_sentence,
                    current_paragraph, paragraphs, structure, formatted_text>>

optimizer_vars == <<api_key, processed_text, requests, response,
                    optimized_text, final_text>>

call_vars == <<source, writes, returned>>

template_vars == <<style, template, prompt>>

main_vars == <<config, queue, transcript, steps, success, results>>

run_vars == <<call_vars, template_vars, main_vars>>

vars == <<pc, formatter_vars, optimizer_vars, run_vars>>

(***************************************************************************)
(* Python values that are not always a str: a value carries its type.      *)
(***************************************************************************)

PyNone == [kind |-> "None"]

PyStr(s) == [kind |-> "str", v |-> s]

\* requests.post has not been called
NoResponse == [kind |-> "none"]

\* the optimizer's locals while a DocumentFormatter method runs
OptimizerIdle ==
    /\ api_key = "None"
    /\ processed_text = <<>>
    /\ requests = 0
    /\ response = NoResponse
    /\ optimized_text = PyNone
    /\ final_text = <<>>

\* no call of format_transcript or optimize_text is under way
CallIdle ==
    /\ source = PyNone
    /\ writes = <<>>
    /\ returned = PyNone

\* no prompt template has been asked for
TemplateIdle ==
    /\ style = ""
    /\ template = <<>>
    /\ prompt = PyNone

\* a step of the result that has not been recorded
Missing == [kind |-> "missing"]

NoSteps == [transcribe |-> Missing, format |-> Missing, ai_optimization |-> Missing]

\* no video is being processed
MainIdle ==
    /\ config = [enable_basic_formatting |-> TRUE, enable_ai_optimization |-> FALSE]
    /\ queue = <<>>
    /\ transcript = PyNone
    /\ steps = NoSteps
    /\ success = FALSE
    /\ results = <<>>

RunIdle == CallIdle /\ TemplateIdle /\ MainIdle

(***************************************************************************)
(* Character classes of Python's re module, over the characters used here. *)
(***************************************************************************)

\* \s (and the characters str.strip() removes)
Whitespace == {" ", "\t", "\n", "U+3000"}

\* \d: the decimal digits, ASCII and fullwidth
Digits == {"0", "1", "2", "3", "4", "5", "6", "7", "8", "9", "U+FF11"}

\* [A-Za-z], as far as the model uses it
Latin == {"a", "b", "A", "B"}

\* the character class of the ten numerals of title_patterns / list_patterns
ChineseNumerals ==
    {"U+4E00", "U+4E8C", "U+4E09", "U+56DB", "U+4E94",
     "U+516D", "U+4E03", "U+516B", "U+4E5D", "U+5341"}

\* other characters of the range 一-鿿 that the patterns and keywords use
Han ==
    {"U+7B2C", "U+7AE0", "U+8282", "U+90E8", "U+5206", "U+63A5", "U+4E0B",
     "U+6765", "U+9762", "U+6700", "U+540E", "U+603B", "U+7ED3", "U+4E4B",
     "U+9996", "U+5148", "U+5176", "U+6B21", "U+7136", "U+76EE", "U+5F55",
     "U+8FD9", "U+662F", "U+6BB5", "U+5185", "U+5BB9",
     "U+6D4B", "U+8BD5", "U+6587", "U+6863", "U+8F6C"}

\* \w: letters, digits and the underscore
WordChars == Latin \cup Digits \cup ChineseNumerals \cup Han \cup {"_"}

\* the punctuation the character class of _clean_text lists
AllowedPunctuation ==
    {"U+FF0C", "U+3002", "U+FF01", "U+FF1F", "U+FF1A", "U+FF1B", "U+3001",
     "U+FF08", "U+FF09", "U+3010", "U+3011", "U+300A", "U+300B", "\"",
     "U+2026", "U+2014"}

\* [^\w\s一-鿿...]: the characters _clean_text removes are the others
AllowedChars == WordChars \cup Whitespace \cup AllowedPunctuation

(***************************************************************************)
(* str helpers.                                                            *)
(***************************************************************************)

\* str.strip(): leading and trailing whitespace removed
strip(s) ==
    IF \A i \in 1..Len(s) : s[i] \in Whitespace THEN <<>>
    ELSE LET lo == CHOOSE i \in 1..Len(s) :
                       /\ s[i] \notin Whitespace
                       /\ \A j \in 1..(i - 1) : s[j] \in Whitespace
             hi == CHOOSE i \in 1..Len(s) :
                       /\ s[i] \notin Whitespace
                       /\ \A j \in (i + 1)..Len(s) : s[j] \in Whitespace
         IN  SubSeq(s, lo, hi)

\* c * n: n copies of the character c
Rep(c, n) == [i \in 1..n |-> c]

\* the sequences of ss one after the other
RECURSIVE Flatten(_)
Flatten(ss) == IF ss = <<>> THEN <<>> ELSE Head(ss) \o Flatten(Tail(ss))

\* sep.join(lines) for a one-character sep
RECURSIVE join(_, _)
join(sep, lines) ==
    IF lines = <<>> THEN <<>>
    ELSE IF Len(lines) = 1 THEN lines[1]
    ELSE lines[1] \o <<sep>> \o join(sep, Tail(lines))

\* str.replace(old, new) for one-character old and new
replace(s, old, new) == [i \in 1..Len(s) |-> IF s[i] = old THEN new ELSE s[i]]

\* re.sub(r'\s+', ' ', s): every maximal run of whitespace becomes one space
RECURSIVE sub_whitespace(_)
sub_whitespace(s) ==
    IF s = <<>> THEN <<>>
    ELSE IF Head(s) \in Whitespace
         THEN LET rest == Tail(s)
                  run  == IF \E i \in 1..Len(rest) : rest[i] \notin Whitespace
                          THEN (CHOOSE i \in 1..Len(rest) :
                                   /\ rest[i] \notin Whitespace
                                   /\ \A j \in 1..(i - 1) : rest[j] \in Whitespace) - 1
                          ELSE Len(rest)
              IN  <<" ">> \o sub_whitespace(SubSeq(rest, run + 1, Len(rest)))
         ELSE <<Head(s)>> \o sub_whitespace(Tail(s))

\* re.sub(r'[^...]', '', s): every character outside the class is removed
sub_disallowed(s) == SelectSeq(s, LAMBDA c : c \in AllowedChars)

(***************************************************************************)
(* DocumentFormatter._clean_text                                           *)
(***************************************************************************)

_clean_text(s) ==
    LET t1 == sub_whitespace(s)
        t2 == sub_disallowed(t1)
        t3 == replace(replace(t2, "U+FF0C", "U+FF0C"), "U+3002", "U+3002")
    IN  strip(t3)

(***************************************************************************)
(* DocumentFormatter._split_paragraphs and _should_split_paragraph         *)
(***************************************************************************)

\* [。！？]
Terminators == {"U+3002", "U+FF01", "U+FF1F"}

\* s cut at every character of seps: the pieces between them, empty ones kept
split_on(s, seps) ==
    LET cuts == {i \in 1..Len(s) : s[i] \in seps}
        n    == Cardinality(cuts)
        cut(k) == IF k = 0 THEN 0
                  ELSE IF k = n + 1 THEN Len(s) + 1
                  ELSE CHOOSE i \in cuts : Cardinality({j \in cuts : j <= i}) = k
    IN  [k \in 1..(n + 1) |-> SubSeq(s, cut(k - 1) + 1, cut(k) - 1)]

\* re.split(r'[。！？]', s)
re_split(s) == split_on(s, Terminators)

\* sentence.endswith(('。', '！', '？'))
endswith_terminator(s) == s # <<>> /\ s[Len(s)] \in Terminators

\* keyword in s
contains(s, keyword) ==
    \E i \in 1..(Len(s) - Len(keyword) + 1) :
        \A j \in 1..Len(keyword) : s[i + j - 1] = keyword[j]

split_keywords ==
    << <<"U+63A5", "U+4E0B", "U+6765">>, <<"U+4E0B", "U+9762">>,
       <<"U+6700", "U+540E">>, <<"U+603B", "U+7ED3">>, <<"U+603B", "U+4E4B">>,
       <<"U+7B2C", "U+4E00", "U+90E8", "U+5206">>,
       <<"U+7B2C", "U+4E8C", "U+90E8", "U+5206">>,
       <<"U+7B2C", "U+4E09", "U+90E8", "U+5206">>,
       <<"U+9996", "U+5148">>, <<"U+5176", "U+6B21">>,
       <<"U+7136", "U+540E">>, <<"U+6700", "U+540E">> >>

\* the length above which a paragraph is closed
MaxParagraphLength == 200

\* the length test left out: only the keywords close a paragraph
should_split_keywords_only(s) ==
    \E k \in 1..Len(split_keywords) : contains(s, split_keywords[k])

\* the length test taken at the limit instead of beyond it
should_split_from_limit(s) ==
    IF Len(s) >= MaxParagraphLength THEN TRUE
    ELSE \E k \in 1..Len(split_keywords) : contains(s, split_keywords[k])

_should_split_paragraph(s) ==
    IF Len(s) > MaxParagraphLength THEN TRUE
    ELSE IF \E k \in 1..Len(split_keywords) : contains(s, split_keywords[k])
         THEN TRUE
         ELSE FALSE

\* the body of the for loop with "current_paragraph = ''" left out
split_body_no_reset(acc, raw) ==
    LET stripped == strip(raw)
        sentence == IF stripped # <<>> /\ ~endswith_terminator(stripped)
                    THEN stripped \o <<"U+3002">> ELSE stripped
        current  == acc.current_paragraph \o sentence
    IN  IF stripped = <<>> THEN acc
        ELSE IF _should_split_paragraph(current)
             THEN [paragraphs |-> IF strip(current) # <<>>
                                  THEN Append(acc.paragraphs, strip(current))
                                  ELSE acc.paragraphs,
                   current_paragraph |-> current]
             ELSE [paragraphs |-> acc.paragraphs, current_paragraph |-> current]

\* the body of "for sentence in sentences" on the locals
\* acc = [paragraphs, current_paragraph] and the sentence raw
split_body(acc, raw) ==
    LET stripped == strip(raw)
        sentence == IF stripped # <<>> /\ ~endswith_terminator(stripped)
                    THEN stripped \o <<"U+3002">> ELSE stripped
        current  == acc.current_paragraph \o sentence
    IN  IF stripped = <<>> THEN acc              \* continue
        ELSE IF _should_split_paragraph(current)
             THEN [paragraphs |-> IF strip(current) # <<>>
                                  THEN Append(acc.paragraphs, strip(current))
                                  ELSE acc.paragraphs,
                   current_paragraph |-> <<>>]
             ELSE [paragraphs |-> acc.paragraphs, current_paragraph |-> current]

\* sentences = re.split(...); paragraphs = []; current_paragraph = ""
SplitSentences ==
    /\ pc = "split"
    /\ sentences' = re_split(cleaned_text)
    /\ next_sentence' = 1
    /\ paragraphs' = <<>>
    /\ current_paragraph' = <<>>
    /\ pc' = "split_loop"
    /\ UNCHANGED optimizer_vars
    /\ UNCHANGED run_vars
    /\ UNCHANGED <<text, title, cleaned_text, structure, formatted_text>>

\* one pass of the for loop
SplitLoop ==
    /\ pc = "split_loop"
    /\ next_sentence <= Len(sentences)
    /\ LET acc == split_body([paragraphs |-> paragraphs,
                              current_paragraph |-> current_paragraph],
                             sentences[next_sentence])
       IN  /\ paragraphs' = acc.paragraphs
           /\ current_paragraph' = acc.current_paragraph
    /\ next_sentence' = next_sentence + 1
    /\ UNCHANGED optimizer_vars
    /\ UNCHANGED run_vars
    /\ UNCHANGED <<pc, text, title, cleaned_text, sentences, structure,
                   formatted_text>>

\* after the loop: the last paragraph is added and paragraphs returned
SplitReturn ==
    /\ pc = "split_loop"
    /\ next_sentence > Len(sentences)
    /\ paragraphs' = IF strip(current_paragraph) # <<>>
                     THEN Append(paragraphs, strip(current_paragraph))
                     ELSE paragraphs
    /\ pc' = "split_done"
    /\ UNCHANGED optimizer_vars
    /\ UNCHANGED run_vars
    /\ UNCHANGED <<text, title, cleaned_text, sentences, next_sentence,
                   current_paragraph, structure, formatted_text>>

(***************************************************************************)
(* Regular expressions: a pattern is a sequence of items [cls, rep], a     *)
(* character class with rep "1" (one), "+" (one or more), "*" (any number). *)
(***************************************************************************)

One(cls)  == [cls |-> cls, rep |-> "1"]
Plus(cls) == [cls |-> cls, rep |-> "+"]
Star(cls) == [cls |-> cls, rep |-> "*"]

\* whether items p.. of pattern pat match s from position i on
RECURSIVE match_from(_, _, _, _), match_more(_, _, _, _)
match_from(pat, p, s, i) ==
    IF p > Len(pat) THEN TRUE
    ELSE LET here == i <= Len(s) /\ s[i] \in pat[p].cls
         IN  CASE pat[p].rep = "1" -> here /\ match_from(pat, p + 1, s, i + 1)
               [] pat[p].rep = "+" -> here /\ match_more(pat, p, s, i + 1)
               [] pat[p].rep = "*" -> match_more(pat, p, s, i)

\* item p repeated further from position i on, then the rest of the pattern
match_more(pat, p, s, i) ==
    \/ match_from(pat, p + 1, s, i)
    \/ /\ i <= Len(s)
       /\ s[i] \in pat[p].cls
       /\ match_more(pat, p, s, i + 1)

\* re.match(pattern, s): the pattern matches at the start of s
re_match(pat, s) == match_from(pat, 1, s, 1)

\* [、．.]
OrdinalMarks == {"U+3001", "U+FF0E", "."}

\* [（(] and [）)]
OpenParens  == {"U+FF08", "("}
CloseParens == {"U+FF09", ")"}

\* [章节部分]
SectionWords == {"U+7AE0", "U+8282", "U+90E8", "U+5206"}

title_patterns ==
    << <<One({"U+7B2C"}), Plus(ChineseNumerals \cup Digits), One(SectionWords)>>,
       <<Plus(ChineseNumerals \cup Digits), One(OrdinalMarks)>>,
       <<One(OpenParens), Plus(Digits), One(CloseParens)>>,
       <<One(Latin), Star(Digits), One(OrdinalMarks)>> >>

list_patterns ==
    << <<Plus(Digits), One(OrdinalMarks)>>,
       <<Plus(ChineseNumerals), One(OrdinalMarks)>>,
       <<One(OpenParens), Plus(ChineseNumerals \cup Digits), One(CloseParens)>> >>

(***************************************************************************)
(* DocumentFormatter._is_title, _is_list, _get_title_level, _get_list_type *)
(***************************************************************************)

_is_title(s) ==
    \E k \in 1..Len(title_patterns) : re_match(title_patterns[k], strip(s))

_is_list(s) ==
    \E k \in 1..Len(list_patterns) : re_match(list_patterns[k], strip(s))

\* the patterns _get_title_level writes out itself
chapter_pattern ==
    <<One({"U+7B2C"}), Plus(ChineseNumerals \cup Digits), One(SectionWords)>>
number_pattern == <<Plus(ChineseNumerals \cup Digits), One(OrdinalMarks)>>

\* the levels of the first two branches exchanged
get_title_level_swapped(s) ==
    IF re_match(chapter_pattern, s) THEN 2
    ELSE IF re_match(number_pattern, s) THEN 1
    ELSE 3

_get_title_level(s) ==
    IF re_match(chapter_pattern, s) THEN 1
    ELSE IF re_match(number_pattern, s) THEN 2
    ELSE 3

\* the patterns _get_list_type writes out itself
numbered_pattern == <<Plus(Digits), One(OrdinalMarks)>>
chinese_pattern  == <<Plus(ChineseNumerals), One(OrdinalMarks)>>

\* the last two results exchanged
get_list_type_swapped(s) ==
    IF re_match(numbered_pattern, s) THEN "numbered"
    ELSE IF re_match(chinese_pattern, s) THEN "bullet"
    ELSE "chinese"

_get_list_type(s) ==
    IF re_match(numbered_pattern, s) THEN "numbered"
    ELSE IF re_match(chinese_pattern, s) THEN "chinese"
    ELSE "bullet"

(***************************************************************************)
(* DocumentFormatter._analyze_structure                                    *)
(***************************************************************************)

\* "elif self._is_list" written as "if": the list test no longer waits for
\* the title test to fail
analyze_body_list_independent(st, i, paragraph) ==
    LET t == IF _is_title(paragraph)
             THEN Append(st.titles, [index |-> i, text |-> paragraph,
                                     level |-> _get_title_level(paragraph)])
             ELSE st.titles
        l == IF _is_list(paragraph)
             THEN Append(st.lists, [index |-> i, text |-> paragraph,
                                    type |-> _get_list_type(paragraph)])
             ELSE st.lists
        b == IF ~_is_title(paragraph) /\ ~_is_list(paragraph)
             THEN Append(st.paragraphs, [index |-> i, text |-> paragraph])
             ELSE st.paragraphs
    IN  [titles |-> t, lists |-> l, paragraphs |-> b]

\* the list test made before the title test
analyze_body_list_first(st, i, paragraph) ==
    IF _is_list(paragraph)
    THEN [st EXCEPT !.lists = Append(@, [index |-> i, text |-> paragraph,
                                         type |-> _get_list_type(paragraph)])]
    ELSE IF _is_title(paragraph)
    THEN [st EXCEPT !.titles = Append(@, [index |-> i, text |-> paragraph,
                                          level |-> _get_title_level(paragraph)])]
    ELSE [st EXCEPT !.paragraphs = Append(@, [index |-> i, text |-> paragraph])]

\* the body of "for i, paragraph in enumerate(paragraphs)" on structure st;
\* i counts from 0 as enumerate does
analyze_body(st, i, paragraph) ==
    IF _is_title(paragraph)
    THEN [st EXCEPT !.titles = Append(@, [index |-> i, text |-> paragraph,
                                          level |-> _get_title_level(paragraph)])]
    ELSE IF _is_list(paragraph)
    THEN [st EXCEPT !.lists = Append(@, [index |-> i, text |-> paragraph,
                                         type |-> _get_list_type(paragraph)])]
    ELSE [st EXCEPT !.paragraphs = Append(@, [index |-> i, text |-> paragraph])]

NoStructure == [titles |-> <<>>, lists |-> <<>>, paragraphs |-> <<>>]

\* the structure after the first n paragraphs went through the loop
RECURSIVE analyze_loop(_, _)
analyze_loop(ps, n) ==
    IF n = 0 THEN NoStructure
    ELSE analyze_body(analyze_loop(ps, n - 1), n - 1, ps[n])

_analyze_structure(ps) == analyze_loop(ps, Len(ps))

\* structure = self._analyze_structure(paragraphs)
AnalyzeStructure ==
    /\ pc = "analyze"
    /\ structure' = _analyze_structure(paragraphs)
    /\ pc' = "analyzed"
    /\ UNCHANGED optimizer_vars
    /\ UNCHANGED run_vars
    /\ UNCHANGED <<text, title, cleaned_text, sentences, next_sentence,
                   current_paragraph, paragraphs, formatted_text>>

(***************************************************************************)
(* DocumentFormatter._generate_formatted_text                              *)
(***************************************************************************)

\* "## 目录"
TocHeading == <<"#", "#", " ", "U+76EE", "U+5F55">>

\* the entries indented by level, not by level - 1
toc_lines_indent_level(st) ==
    IF st.titles # <<>>
    THEN <<TocHeading>>
         \o [k \in 1..Len(st.titles) |->
                Rep(" ", 2 * st.titles[k].level) \o <<"-", " ">> \o st.titles[k].text]
         \o << <<>> >>
    ELSE <<>>

\* the lines of "if structure['titles']": heading, one entry per title, blank
toc_lines(st) ==
    IF st.titles # <<>>
    THEN <<TocHeading>>
         \o [k \in 1..Len(st.titles) |->
                Rep(" ", 2 * (st.titles[k].level - 1))
                    \o <<"-", " ">> \o st.titles[k].text]
         \o << <<>> >>
    ELSE <<>>

\* next(e for e in entries if e['index'] == i)
first_with_index(entries, i) ==
    entries[CHOOSE k \in 1..Len(entries) :
                /\ entries[k].index = i
                /\ \A j \in 1..(k - 1) : entries[j].index # i]

\* a heading of level marks, not of level + 1
paragraph_lines_level_marks(i, paragraph, st) ==
    LET is_title == \E k \in 1..Len(st.titles) : st.titles[k].index = i
        is_list  == \E k \in 1..Len(st.lists) : st.lists[k].index = i
    IN  IF is_title
        THEN << Rep("#", first_with_index(st.titles, i).level)
                    \o <<" ">> \o paragraph, <<>> >>
        ELSE IF is_list
        THEN LET type == first_with_index(st.lists, i).type
             IN  IF type = "numbered" THEN << <<"1", ".", " ">> \o paragraph >>
                 ELSE IF type = "chinese" THEN << <<"-", " ">> \o paragraph >>
                 ELSE << <<"U+2022", " ">> \o paragraph >>
        ELSE << paragraph, <<>> >>

\* the lines one pass of "for i, paragraph in enumerate(paragraphs)" appends
paragraph_lines(i, paragraph, st) ==
    LET is_title == \E k \in 1..Len(st.titles) : st.titles[k].index = i
        is_list  == \E k \in 1..Len(st.lists) : st.lists[k].index = i
    IN  IF is_title
        THEN << Rep("#", first_with_index(st.titles, i).level + 1)
                    \o <<" ">> \o paragraph, <<>> >>
        ELSE IF is_list
        THEN LET type == first_with_index(st.lists, i).type
             IN  IF type = "numbered" THEN << <<"1", ".", " ">> \o paragraph >>
                 ELSE IF type = "chinese" THEN << <<"-", " ">> \o paragraph >>
                 ELSE << <<"U+2022", " ">> \o paragraph >>
        ELSE << paragraph, <<>> >>

_generate_formatted_text(ps, st, t) ==
    LET formatted_lines ==
            << <<"#", " ">> \o t, <<>> >>
            \o toc_lines(st)
            \o Flatten([k \in 1..Len(ps) |-> paragraph_lines(k - 1, ps[k], st)])
    IN  join("\n", formatted_lines)

\* formatted_text = self._generate_formatted_text(paragraphs, structure, title)
GenerateFormattedText ==
    /\ pc = "generate"
    /\ formatted_text' = _generate_formatted_text(paragraphs, structure, title)
    /\ pc' = "generated"
    /\ UNCHANGED optimizer_vars
    /\ UNCHANGED run_vars
    /\ UNCHANGED <<text, title, cleaned_text, sentences, next_sentence,
                   current_paragraph, paragraphs, structure>>

(***************************************************************************)
(* Bounded sequences.                                                      *)
(***************************************************************************)

SeqsUpTo(S, n) == UNION {[1..k -> S] : k \in 0..n}

(***************************************************************************)
(* SpecClean: _clean_text applied to a raw text, then to its own output.   *)
(***************************************************************************)

MaxRawLen == 5

RawChars == {"a", " ", "\t", "#", "U+FF0C"}

RawTexts == SeqsUpTo(RawChars, MaxRawLen)

InitClean ==
    /\ pc = "clean"
    /\ text \in RawTexts
    /\ title = <<>>
    /\ cleaned_text = <<>>
    /\ sentences = <<>>
    /\ next_sentence = 1
    /\ current_paragraph = <<>>
    /\ paragraphs = <<>>
    /\ structure = NoStructure
    /\ formatted_text = <<>>
    /\ OptimizerIdle
    /\ RunIdle

\* cleaned_text = self._clean_text(text)
CleanText ==
    /\ pc = "clean"
    /\ cleaned_text' = _clean_text(text)
    /\ pc' = "cleaned"
    /\ UNCHANGED optimizer_vars
    /\ UNCHANGED run_vars
    /\ UNCHANGED <<text, title, sentences, next_sentence, current_paragraph,
                   paragraphs, structure, formatted_text>>

\* the result is passed to _clean_text again
CleanAgain ==
    /\ pc = "cleaned"
    /\ text' = cleaned_text
    /\ cleaned_text' = _clean_text(cleaned_text)
    /\ pc' = "recleaned"
    /\ UNCHANGED optimizer_vars
    /\ UNCHANGED run_vars
    /\ UNCHANGED <<title, sentences, next_sentence, current_paragraph,
                   paragraphs, structure, formatted_text>>

NextClean == CleanText \/ CleanAgain

SpecClean == InitClean /\ [][NextClean]_vars

\* C1: _clean_text is idempotent: cleaning a cleaned text returns it unchanged
\* (in state "recleaned", text holds the first result and cleaned_text the second).
C1_CleanIdempotent == pc = "recleaned" => cleaned_text = text

\* C2: the output of _clean_text has no two adjacent whitespace characters and
\* no leading or trailing whitespace, and the empty input yields the empty output.
C2_WhitespaceCollapsed ==
    pc = "cleaned" =>
        /\ \A i \in 1..(Len(cleaned_text) - 1) :
               ~(cleaned_text[i] \in Whitespace /\ cleaned_text[i + 1] \in Whitespace)
        /\ cleaned_text # <<>> =>
               /\ cleaned_text[1] \notin Whitespace
               /\ cleaned_text[Len(cleaned_text)] \notin Whitespace
        /\ text = <<>> => cleaned_text = <<>>

(***************************************************************************)
(* SpecSegment: _split_paragraphs applied to a text.                       *)
(***************************************************************************)

MaxPieces == 4

\* what the texts are put together from: a letter, a space, two terminators,
\* a keyword, a run that with its full stop is half the length limit, and a
\* run of the length limit
Pieces ==
    { <<"a">>, <<" ">>, <<"U+3002">>, <<"U+FF01">>, <<"U+9996", "U+5148">>,
      Rep("a", (MaxParagraphLength \div 2) - 1), Rep("a", MaxParagraphLength) }

SegmentTexts == {Flatten(ps) : ps \in SeqsUpTo(Pieces, MaxPieces)}

InitSegment ==
    /\ pc = "split"
    /\ text = <<>>
    /\ title = <<>>
    /\ cleaned_text \in SegmentTexts
    /\ sentences = <<>>
    /\ next_sentence = 1
    /\ current_paragraph = <<>>
    /\ paragraphs = <<>>
    /\ structure = NoStructure
    /\ formatted_text = <<>>
    /\ OptimizerIdle
    /\ RunIdle

NextSegment == SplitSentences \/ SplitLoop \/ SplitReturn

SpecSegment == InitSegment /\ [][NextSegment]_vars

\* the sentences of a paragraph: its pieces between full stops, the empty
\* piece after its last full stop left out
SentencesOf(p) ==
    LET parts == re_split(p) IN SubSeq(parts, 1, Len(parts) - 1)

\* the non-blank fragments of the text, stripped, in order
NonBlankFragments ==
    LET stripped == [k \in 1..Len(sentences) |-> strip(sentences[k])]
    IN  SelectSeq(stripped, LAMBDA f : f # <<>>)

\* C3: every non-blank fragment of the split on terminal punctuation is in
\* exactly one paragraph, in the original order, and blank fragments add
\* nothing: the sentences of the paragraphs, one paragraph after the other, are
\* exactly the non-blank fragments (stripped), and every paragraph is made of
\* whole sentences.
C3_SentencesOncePreserved ==
    pc = "split_done" =>
        /\ \A k \in 1..Len(paragraphs) :
               /\ paragraphs[k] # <<>>
               /\ paragraphs[k][Len(paragraphs[k])] = "U+3002"
        /\ Flatten([k \in 1..Len(paragraphs) |-> SentencesOf(paragraphs[k])])
               = NonBlankFragments

\* C3 witness: a text with a blank fragment between two sentences that end up
\* in two paragraphs
C3_Witness ==
    /\ pc = "split_done"
    /\ Len(paragraphs) >= 2
    /\ \E k \in 2..(Len(sentences) - 1) : strip(sentences[k]) = <<>>

\* C4 (as claimed): a paragraph is longer than 200 characters only if it is a
\* single sentence; a paragraph of two or more sentences never exceeds 200.
C4_Original ==
    pc = "split_done" =>
        \A k \in 1..Len(paragraphs) :
            Len(paragraphs[k]) > MaxParagraphLength =>
                Len(SentencesOf(paragraphs[k])) = 1

\* a paragraph without its last sentence
WithoutLastSentence(p) ==
    LET ss == SentencesOf(p)
    IN  SubSeq(p, 1, Len(p) - (Len(ss[Len(ss)]) + 1))

\* C4 (amended): a paragraph exceeds 200 characters only by its last sentence:
\* without its last sentence every paragraph has at most 200 characters.
C4_BoundBeforeLastSentence ==
    pc = "split_done" =>
        \A k \in 1..Len(paragraphs) :
            Len(WithoutLastSentence(paragraphs[k])) <= MaxParagraphLength

\* C4 witness: a paragraph of two sentences that is longer than 200 characters
C4_Witness ==
    /\ pc = "split_done"
    /\ \E k \in 1..Len(paragraphs) :
           /\ Len(paragraphs[k]) > MaxParagraphLength
           /\ Len(SentencesOf(paragraphs[k])) >= 2

(***************************************************************************)
(* SpecClassify: _analyze_structure applied to a sequence of paragraphs.   *)
(* A paragraph is what _split_paragraphs returns: stripped, closed by a    *)
(* full stop.  Its start is drawn from every combination of an opening     *)
(* character, a numeral and a closing character of the patterns.           *)
(***************************************************************************)

MaxParagraphs == 2

Openers  == { <<>>, <<"U+7B2C">>, <<"U+FF08">>, <<"A">> }
Numerals == { <<>>, <<"U+4E00">>, <<"1">> }
Closers  == { <<"U+7AE0">>, <<"U+3001">>, <<"U+FF09">>, <<".">> }

ClassifyParagraphs ==
    { o \o n \o c \o <<"a", "U+3002">> :
          o \in Openers, n \in Numerals, c \in Closers }

InitClassify ==
    /\ pc = "analyze"
    /\ text = <<>>
    /\ title = <<>>
    /\ cleaned_text = <<>>
    /\ sentences = <<>>
    /\ next_sentence = 1
    /\ current_paragraph = <<>>
    /\ paragraphs \in SeqsUpTo(ClassifyParagraphs, MaxParagraphs)
    /\ structure = NoStructure
    /\ formatted_text = <<>>
    /\ OptimizerIdle
    /\ RunIdle

NextClassify == AnalyzeStructure

SpecClassify == InitClassify /\ [][NextClassify]_vars

\* the indices a sequence of structure entries holds
IndicesOf(entries) == {entries[k].index : k \in 1..Len(entries)}

\* entries in ascending index order, none twice
Ascending(entries) ==
    \A j, k \in 1..Len(entries) : j < k => entries[j].index < entries[k].index

\* C5: classification coverage: the indices of titles, lists and paragraphs
\* are pairwise disjoint, their union is {0..n-1}, and each of the three
\* sequences is in ascending index order.
C5_Coverage ==
    pc = "analyzed" =>
        LET T == IndicesOf(structure.titles)
            L == IndicesOf(structure.lists)
            B == IndicesOf(structure.paragraphs)
        IN  /\ T \cap L = {} /\ T \cap B = {} /\ L \cap B = {}
            /\ T \cup L \cup B = 0..(Len(paragraphs) - 1)
            /\ Ascending(structure.titles)
            /\ Ascending(structure.lists)
            /\ Ascending(structure.paragraphs)

\* C5 witness: two paragraphs, the first matching a title and a list pattern
C5_Witness ==
    /\ pc = "analyzed"
    /\ Len(paragraphs) = 2
    /\ _is_title(paragraphs[1]) /\ _is_list(paragraphs[1])

\* whether a paragraph matches some pattern of a family
MatchesAny(patterns, p) == \E k \in 1..Len(patterns) : re_match(patterns[k], p)

\* the label the structure gives index i (counted from 0)
LabelOf(i) ==
    IF i \in IndicesOf(structure.titles) THEN "Title"
    ELSE IF i \in IndicesOf(structure.lists) THEN "ListItem"
    ELSE IF i \in IndicesOf(structure.paragraphs) THEN "Body"
    ELSE "none"

\* C6: precedence title before list before body: a paragraph is a Title iff it
\* matches a title pattern (also when it matches a list pattern), a ListItem
\* iff it matches no title pattern and some list pattern, a Body otherwise; the
\* label depends on the paragraph's text alone: equal texts get equal labels,
\* wherever they stand.
C6_Precedence ==
    pc = "analyzed" =>
        /\ \A i \in 0..(Len(paragraphs) - 1) :
               LET p == paragraphs[i + 1]
                   isT == MatchesAny(title_patterns, p)
                   isL == MatchesAny(list_patterns, p)
               IN  /\ (i \in IndicesOf(structure.titles)) <=> isT
                   /\ (i \in IndicesOf(structure.lists)) <=> (~isT /\ isL)
                   /\ (i \in IndicesOf(structure.paragraphs)) <=> (~isT /\ ~isL)
        /\ \A i, j \in 0..(Len(paragraphs) - 1) :
               paragraphs[i + 1] = paragraphs[j + 1] => LabelOf(i) = LabelOf(j)

\* C6 witness: a paragraph that matches both families is a Title, beside a
\* paragraph that matches only a list pattern and is a ListItem
C6_Witness ==
    /\ pc = "analyzed"
    /\ \E k \in 1..Len(structure.titles) :
           MatchesAny(list_patterns, structure.titles[k].text)
    /\ structure.lists # <<>>

\* C7 (as claimed): a Title has level 1 with a chapter/section prefix, level 2
\* with a bare numeric or alphabetic ordinal prefix, level 3 otherwise.
C7_Original ==
    pc = "analyzed" =>
        \A k \in 1..Len(structure.titles) :
            LET t == structure.titles[k]
                chapter == re_match(title_patterns[1], t.text)
                ordinal == \/ re_match(title_patterns[2], t.text)
                           \/ re_match(title_patterns[4], t.text)
            IN  t.level = IF chapter THEN 1 ELSE IF ordinal THEN 2 ELSE 3

\* C7 (amended): a Title has level 1 with a chapter/section prefix, level 2
\* with a bare numeric ordinal prefix (digits or numerals, then an ordinal
\* mark), and level 3 for any other title match: a parenthesized number or an
\* alphabetic prefix.
C7_TitleLevel ==
    pc = "analyzed" =>
        \A k \in 1..Len(structure.titles) :
            LET t == structure.titles[k]
                chapter == re_match(title_patterns[1], t.text)
                numeric == re_match(title_patterns[2], t.text)
            IN  t.level = IF chapter THEN 1 ELSE IF numeric THEN 2 ELSE 3

\* C7 witness: titles of level 1, 2 and 3 occur, among them an alphabetic
\* prefix and a parenthesized number
C7_Witness ==
    /\ pc = "analyzed"
    /\ \E k \in 1..Len(structure.titles) :
           /\ re_match(title_patterns[4], structure.titles[k].text)
           /\ structure.titles[k].level = 3
    /\ \E k \in 1..Len(structure.titles) : structure.titles[k].level \in {1, 2}

\* C8: a ListItem has kind "numbered" with a numeric-dot prefix, "chinese"
\* with a numeral-word prefix, "bullet" for any other list-pattern match.
C8_ListKind ==
    pc = "analyzed" =>
        \A k \in 1..Len(structure.lists) :
            LET l == structure.lists[k]
                numeric == re_match(list_patterns[1], l.text)
                ordinal == re_match(list_patterns[2], l.text)
            IN  /\ MatchesAny(list_patterns, l.text)
                /\ l.type = IF numeric THEN "numbered"
                            ELSE IF ordinal THEN "chinese" ELSE "bullet"

\* C8 witness: a ListItem (a parenthesized numeral, kind "bullet")
C8_Witness ==
    /\ pc = "analyzed"
    /\ \E k \in 1..Len(structure.lists) : structure.lists[k].type = "bullet"

(***************************************************************************)
(* SpecRender: _generate_formatted_text applied to paragraphs, a structure *)
(* over them and a title.  The structure is any labelling of the           *)
(* paragraphs: each index in one of the three sequences, in ascending      *)
(* order, with any title level and any list kind.                          *)
(***************************************************************************)

MaxRenderParagraphs == 3

RenderParagraphs ==
    { <<"a", "U+3002">>, <<"U+4E00", "U+3001", "b", "U+3002">> }

RenderTitles == { <<"T">>, <<"T", " ", "2">> }

Labels ==
    [kind : {"Title"}, level : 1..3, type : {"none"}]
    \cup [kind : {"ListItem"}, level : {0}, type : {"numbered", "chinese", "bullet"}]
    \cup [kind : {"Body"}, level : {0}, type : {"none"}]

\* the structure that gives paragraph k the label lab[k], for the first n
RECURSIVE labelled_structure(_, _, _)
labelled_structure(ps, lab, n) ==
    IF n = 0 THEN NoStructure
    ELSE LET st == labelled_structure(ps, lab, n - 1)
             i  == n - 1
         IN  CASE lab[n].kind = "Title" ->
                    [st EXCEPT !.titles = Append(@, [index |-> i, text |-> ps[n],
                                                     level |-> lab[n].level])]
               [] lab[n].kind = "ListItem" ->
                    [st EXCEPT !.lists = Append(@, [index |-> i, text |-> ps[n],
                                                    type |-> lab[n].type])]
               [] lab[n].kind = "Body" ->
                    [st EXCEPT !.paragraphs = Append(@, [index |-> i, text |-> ps[n]])]

InitRender ==
    /\ pc = "generate"
    /\ text = <<>>
    /\ title \in RenderTitles
    /\ cleaned_text = <<>>
    /\ sentences = <<>>
    /\ next_sentence = 1
    /\ current_paragraph = <<>>
    /\ paragraphs \in SeqsUpTo(RenderParagraphs, MaxRenderParagraphs)
    /\ \E lab \in [1..Len(paragraphs) -> Labels] :
           structure = labelled_structure(paragraphs, lab, Len(paragraphs))
    /\ formatted_text = <<>>
    /\ OptimizerIdle
    /\ RunIdle

NextRender == GenerateFormattedText

SpecRender == InitRender /\ [][NextRender]_vars

\* the lines of the generated text
LinesOf(t) == split_on(t, {"\n"})

\* C9: the first line is "# <title>"; there is a table of contents iff
\* structure.titles is not empty; it follows the heading and a blank line and
\* holds one entry per title, in ascending paragraph-index order, each indented
\* by (level - 1) units of two spaces, and a blank line ends it.
C9_HeadingAndToc ==
    pc = "generated" =>
        LET lines == LinesOf(formatted_text)
            n == Len(structure.titles)
        IN  /\ lines[1] = <<"#", " ">> \o title
            /\ lines[2] = <<>>
            /\ (n > 0) <=> (\E k \in 1..Len(lines) : lines[k] = TocHeading)
            /\ n > 0 =>
                   /\ lines[3] = TocHeading
                   /\ \A k \in 1..n :
                          lines[3 + k] =
                              Rep(" ", 2 * (structure.titles[k].level - 1))
                                  \o <<"-", " ">> \o structure.titles[k].text
                   /\ lines[3 + n + 1] = <<>>
                   /\ Ascending(structure.titles)

\* C9 witness: a table of contents with two titles of different levels, the
\* second one indented
C9_Witness ==
    /\ pc = "generated"
    /\ Len(structure.titles) = 2
    /\ structure.titles[1].level = 1
    /\ structure.titles[2].level = 3
    /\ structure.titles[1].index + 1 < structure.titles[2].index

\* the lines the claim gives paragraph k (counted from 1) by its label
ClaimedLines(k) ==
    LET p == paragraphs[k]
        i == k - 1
    IN  CASE LabelOf(i) = "Title" ->
                LET t == CHOOSE e \in {structure.titles[j] : j \in 1..Len(structure.titles)} :
                             e.index = i
                IN  << Rep("#", t.level + 1) \o <<" ">> \o p, <<>> >>
          [] LabelOf(i) = "ListItem" ->
                LET l == CHOOSE e \in {structure.lists[j] : j \in 1..Len(structure.lists)} :
                             e.index = i
                    marker == IF l.type = "numbered" THEN <<"1", ".">>
                              ELSE IF l.type = "chinese" THEN <<"-">>
                              ELSE <<"U+2022">>
                IN  << marker \o <<" ">> \o p >>
          [] LabelOf(i) = "Body" -> << p, <<>> >>

\* C10: after the heading and the table of contents every paragraph is emitted
\* exactly once, in index order: a Title as a heading of (level + 1) marks, a
\* ListItem with the marker of its kind, a Body as its text; a blank line
\* follows a Title and a Body.
C10_ParagraphsInOrder ==
    pc = "generated" =>
        LET lines == LinesOf(formatted_text)
            n == Len(structure.titles)
            first == IF n > 0 THEN 3 + n + 2 ELSE 3
        IN  SubSeq(lines, first, Len(lines))
                = Flatten([k \in 1..Len(paragraphs) |-> ClaimedLines(k)])

\* C10 witness: a numbered ListItem, a Title and a Body, in this order
C10_Witness ==
    /\ pc = "generated"
    /\ Len(paragraphs) = 3
    /\ paragraphs[1] # paragraphs[2]
    /\ LabelOf(0) = "ListItem" /\ structure.lists[1].type = "numbered"
    /\ LabelOf(1) = "Title"
    /\ LabelOf(2) = "Body"

(***************************************************************************)
(* AIOptimizer (src/src/optimizer/ai_optimizer.py).                        *)
(*                                                                         *)
(* _call_ai_optimization: the gateway to the remote rewriting endpoint.    *)
(* The endpoint is the environment: what requests.post does is chosen      *)
(* among the outcomes a call can have.                                     *)
(***************************************************************************)

\* config.get('api_key'): absent (None), the empty string, or a key
ApiKeys == {"None", "", "sk-1"}

has_api_key_not_None(k) == k # "None"

\* the negation of `not self.api_key`: the key is neither None nor ''
has_api_key(k) == k \notin {"None", ""}

PyInt(n) == [kind |-> "int", v |-> n]

PyList(l) == [kind |-> "list", v |-> l]

PyDict(d) == [kind |-> "dict", v |-> d]

\* an exception (KeyError, IndexError, TypeError, JSONDecodeError, ...) is propagating
Raised == [kind |-> "raised"]

\* response.json() of a body that is not JSON
Malformed == [kind |-> "malformed"]

\* x[key] with a str key: only a dict that holds the key answers
getitem(x, key) ==
    IF x.kind = "dict" /\ key \in DOMAIN x.v THEN x.v[key] ELSE Raised

\* x[0]: the first element of a non-empty list, the first character of a
\* non-empty str
getitem0(x) ==
    IF x.kind = "list" /\ Len(x.v) > 0 THEN x.v[1]
    ELSE IF x.kind = "str" /\ Len(x.v) > 0 THEN PyStr(<<x.v[1]>>)
    ELSE Raised

\* response.status_code
StatusCodes == {200, 201, 401, 500}

\* texts the endpoint may put at choices[0].message.content
RewrittenTexts == << <<>>, <<"b">>, <<"#", " ", "b">> >>

\* a JSON body with the given value at choices[0].message.content
completion(content) ==
    PyDict([choices |-> PyList(<<PyDict([message |-> PyDict([content |-> content])])>>)])

\* bodies of a response, as response.json() sees them
ResponseBodies ==
    << Malformed,
       PyNone,
       PyStr(<<"o", "k">>),
       PyList(<<>>),
       PyDict([error |-> PyStr(<<"e">>)]),
       PyDict([choices |-> PyNone]),
       PyDict([choices |-> PyStr(<<"a">>)]),
       PyDict([choices |-> PyList(<<>>)]),
       PyDict([choices |-> PyList(<<PyNone>>)]),
       PyDict([choices |-> PyList(<<PyDict([index |-> PyInt(0)])>>)]),
       PyDict([choices |-> PyList(<<PyDict([message |-> PyStr(<<"b">>)])>>)]),
       PyDict([choices |-> PyList(<<PyDict([message |-> PyDict([role |-> PyStr(<<"a">>)])])>>)]),
       completion(PyNone),
       completion(PyInt(0)),
       completion(PyList(<<PyStr(<<"b">>)>>)),
       completion(PyStr(RewrittenTexts[1])),
       completion(PyStr(RewrittenTexts[2])),
       completion(PyStr(RewrittenTexts[3])) >>

\* requests.post raised (connection error, timeout)
PostException == [kind |-> "exception"]

HttpResponse(status, body) ==
    [kind |-> "response", status_code |-> status, body |-> body]

\* lines 155-172: what the method returns once requests.post is over
call_result(resp, t) ==
    IF resp.kind = "exception" THEN PyStr(t)
    ELSE IF resp.status_code = 200
         THEN LET result == IF resp.body.kind = "malformed" THEN Raised
                            ELSE resp.body
                  content == getitem(getitem(getitem0(getitem(result, "choices")),
                                             "message"), "content")
              IN  IF content.kind = "raised" THEN PyStr(t) ELSE content
         ELSE PyStr(t)

\* lines 130-132: no key, the text is returned as it came
CallPassThrough ==
    /\ pc = "call"
    /\ ~has_api_key(api_key)
    /\ optimized_text' = PyStr(processed_text)
    /\ pc' = "returned"
    /\ UNCHANGED formatter_vars
    /\ UNCHANGED run_vars
    /\ UNCHANGED <<api_key, processed_text, requests, response, final_text>>

\* lines 135-162: the request is built and posted; the endpoint answers
CallPost ==
    /\ pc = "call"
    /\ has_api_key(api_key)
    /\ requests' = requests + 1
    /\ \/ response' = PostException
       \/ \E status \in StatusCodes, b \in 1..Len(ResponseBodies) :
              response' = HttpResponse(status, ResponseBodies[b])
    /\ pc' = "posted"
    /\ UNCHANGED formatter_vars
    /\ UNCHANGED run_vars
    /\ UNCHANGED <<api_key, processed_text, optimized_text, final_text>>

CallReturn_retry ==
    /\ pc = "posted"
    /\ IF call_result(response, processed_text) = PyStr(processed_text) /\ requests < 2
       THEN pc' = "call" /\ UNCHANGED optimized_text
       ELSE pc' = "returned"
            /\ optimized_text' = call_result(response, processed_text)
    /\ UNCHANGED formatter_vars
    /\ UNCHANGED run_vars
    /\ UNCHANGED <<api_key, processed_text, requests, response, final_text>>

\* lines 164-172: the answer is turned into the returned value
CallReturn ==
    /\ pc = "posted"
    /\ optimized_text' = call_result(response, processed_text)
    /\ pc' = "returned"
    /\ UNCHANGED formatter_vars
    /\ UNCHANGED run_vars
    /\ UNCHANGED <<api_key, processed_text, requests, response, final_text>>

(***************************************************************************)
(* Specification of _call_ai_optimization: any key, a few texts.           *)
(***************************************************************************)

GatewayTexts == { <<>>, <<"a">>, <<"a", "U+3002">>, <<"#", " ", "a">> }

InitGateway ==
    /\ pc = "call"
    /\ text = <<>>
    /\ title = <<>>
    /\ cleaned_text = <<>>
    /\ sentences = <<>>
    /\ next_sentence = 1
    /\ current_paragraph = <<>>
    /\ paragraphs = <<>>
    /\ structure = NoStructure
    /\ formatted_text = <<>>
    /\ api_key \in ApiKeys
    /\ processed_text \in GatewayTexts
    /\ requests = 0
    /\ response = NoResponse
    /\ optimized_text = PyNone
    /\ final_text = <<>>
    /\ RunIdle

NextGateway == CallPassThrough \/ CallPost \/ CallReturn

SpecGateway == InitGateway /\ [][NextGateway]_vars

\* C12: without a credential (api_key None or ''), _call_ai_optimization
\* returns its text argument unchanged, has issued no request and has
\* raised nothing.
C12_PassThrough ==
    (pc = "returned" /\ api_key \in {"None", ""}) =>
        /\ optimized_text = PyStr(processed_text)
        /\ requests = 0
        /\ response = NoResponse

C12_Witness ==
    /\ pc = "returned"
    /\ api_key = ""
    /\ processed_text # <<>>
    /\ optimized_text = PyStr(processed_text)
    /\ requests = 0

\* the answer is a success carrying a text at choices[0].message.content
RewriteCarried(resp) ==
    /\ resp.kind = "response"
    /\ resp.status_code = 200
    /\ resp.body.kind = "dict"
    /\ "choices" \in DOMAIN resp.body.v
    /\ LET choices == resp.body.v["choices"]
       IN  /\ choices.kind = "list"
           /\ Len(choices.v) > 0
           /\ choices.v[1].kind = "dict"
           /\ "message" \in DOMAIN choices.v[1].v
           /\ LET message == choices.v[1].v["message"]
              IN  /\ message.kind = "dict"
                  /\ "content" \in DOMAIN message.v
                  /\ message.v["content"].kind = "str"

\* C13: with a credential, whenever the answer is anything but a success
\* carrying the rewritten text at choices[0].message.content (transport
\* failure, non-success status, malformed JSON, any other shape), the
\* gateway returns its text argument unchanged and raises nothing.
C13_FailOpen ==
    (pc = "returned" /\ api_key \notin {"None", ""} /\ ~RewriteCarried(response)) =>
        optimized_text = PyStr(processed_text)

\* C14: with a credential, an invocation of the gateway issues exactly one
\* request whatever the outcome: never a second one, never a retry.
C14_OneRequest ==
    /\ requests <= 1
    /\ (pc \in {"posted", "returned"} /\ api_key \notin {"None", ""}) => requests = 1

C14_Witness ==
    /\ pc = "returned"
    /\ api_key = "sk-1"
    /\ response = PostException
    /\ requests = 1

(***************************************************************************)
(* AIOptimizer._preprocess_text                                            *)
(***************************************************************************)

\* the elements of s whose positions are in keep, in order
select_positions(s, keep) ==
    LET pairs == [i \in 1..Len(s) |-> <<i, s[i]>>]
        kept  == SelectSeq(pairs, LAMBDA p : p[1] \in keep)
    IN  [k \in 1..Len(kept) |-> kept[k][2]]

\* ' '.join(s.split()): the words of s, one space between two of them
join_split(s) ==
    LET words == {i \in 1..Len(s) : s[i] \notin Whitespace}
        last  == IF words = {} THEN 0
                 ELSE CHOOSE i \in words : \A j \in (i + 1)..Len(s) : j \notin words
        keep  == {i \in 1..Len(s) :
                     \/ i \in words
                     \/ i > 1 /\ i < last /\ (i - 1) \in words}
        kept  == select_positions(s, keep)
    IN  [k \in 1..Len(kept) |-> IF kept[k] \in Whitespace THEN " " ELSE kept[k]]

\* s.replace(old, ''): every occurrence of old removed.  The occurrences of
\* a marker cannot overlap: it opens with '[' and holds no other '['.
remove_all(s, old) ==
    LET starts  == {i \in 1..(Len(s) - Len(old) + 1) :
                       \A j \in 1..Len(old) : s[i + j - 1] = old[j]}
        covered == {i \in 1..Len(s) :
                       \E k \in 0..(Len(old) - 1) : (i - k) \in starts}
    IN  select_positions(s, (1..Len(s)) \ covered)

\* '[音乐]', '[掌声]', '[笑声]'
MusicMarker == <<"[", "U+97F3", "U+4E50", "]">>

ApplauseMarker == <<"[", "U+638C", "U+58F0", "]">>

LaughterMarker == <<"[", "U+7B11", "U+58F0", "]">>

\* sep.join(lines) for a str sep
RECURSIVE join_str(_, _)
join_str(sep, lines) ==
    IF lines = <<>> THEN <<>>
    ELSE IF Len(lines) = 1 THEN lines[1]
    ELSE lines[1] \o sep \o join_str(sep, Tail(lines))

\* the length above which _preprocess_text closes a paragraph
PreprocessMaxLength == 200

\* the body of the for loop with the length test left out
preprocess_body_no_flush(acc, raw) ==
    LET stripped == strip(raw)
        sentence == IF ~endswith_terminator(stripped)
                    THEN stripped \o <<"U+3002">> ELSE stripped
        current  == acc.current_paragraph \o sentence
    IN  IF stripped = <<>> THEN acc
        ELSE [paragraphs |-> acc.paragraphs, current_paragraph |-> current]

\* the body of "for sentence in sentences" (lines 110-122) on the locals
\* acc = [paragraphs, current_paragraph] and the sentence raw
preprocess_body(acc, raw) ==
    LET stripped == strip(raw)
        sentence == IF ~endswith_terminator(stripped)
                    THEN stripped \o <<"U+3002">> ELSE stripped
        current  == acc.current_paragraph \o sentence
    IN  IF stripped = <<>> THEN acc              \* continue
        ELSE IF Len(current) > PreprocessMaxLength
             THEN [paragraphs |-> Append(acc.paragraphs, strip(current)),
                   current_paragraph |-> <<>>]
             ELSE [paragraphs |-> acc.paragraphs, current_paragraph |-> current]

\* the locals after the first n sentences
RECURSIVE preprocess_loop(_, _)
preprocess_loop(ss, n) ==
    IF n = 0 THEN [paragraphs |-> <<>>, current_paragraph |-> <<>>]
    ELSE preprocess_body(preprocess_loop(ss, n - 1), ss[n])

_preprocess_text(s) ==
    LET t1  == join_split(s)
        t2  == remove_all(remove_all(remove_all(t1, MusicMarker), ApplauseMarker),
                          LaughterMarker)
        ss  == re_split(t2)
        acc == preprocess_loop(ss, Len(ss))
        ps  == IF strip(acc.current_paragraph) # <<>>
               THEN Append(acc.paragraphs, strip(acc.current_paragraph))
               ELSE acc.paragraphs
    IN  join_str(<<"\n", "\n">>, ps)

\* processed_text = self._preprocess_text(text)
PreprocessText ==
    /\ pc = "preprocess"
    /\ processed_text' = _preprocess_text(text)
    /\ pc' = "split"
    /\ UNCHANGED formatter_vars
    /\ UNCHANGED run_vars
    /\ UNCHANGED <<api_key, requests, response, optimized_text, final_text>>

(***************************************************************************)
(* Specification of _preprocess_text next to _split_paragraphs: both are   *)
(* given the same text, built from a few pieces.                           *)
(***************************************************************************)

MaxPrePieces == 4

PrePieces ==
    { <<"a">>, <<" ">>, <<"U+3002">>, <<"U+9996", "U+5148">>, MusicMarker,
      Rep("a", 200) }

PreprocessTexts == {Flatten(ps) : ps \in SeqsUpTo(PrePieces, MaxPrePieces)}

InitPreprocess ==
    /\ pc = "preprocess"
    /\ text \in PreprocessTexts
    /\ title = <<>>
    /\ cleaned_text = text
    /\ sentences = <<>>
    /\ next_sentence = 1
    /\ current_paragraph = <<>>
    /\ paragraphs = <<>>
    /\ structure = NoStructure
    /\ formatted_text = <<>>
    /\ OptimizerIdle
    /\ RunIdle

NextPreprocess == PreprocessText \/ SplitSentences \/ SplitLoop \/ SplitReturn

SpecPreprocess == InitPreprocess /\ [][NextPreprocess]_vars

\* C15 as stated: for every text, what _preprocess_text returns is the
\* paragraphs of _split_paragraphs on the same text, joined by blank lines.
C15_Original ==
    pc = "split_done" => processed_text = join_str(<<"\n", "\n">>, paragraphs)

\* t has no whitespace but single spaces between two words
WhitespaceNormal(t) ==
    \A i \in 1..Len(t) :
        t[i] \in Whitespace =>
            /\ t[i] = " "
            /\ i > 1 /\ i < Len(t)
            /\ t[i + 1] \notin Whitespace

NoMarker(t) ==
    \A m \in {MusicMarker, ApplauseMarker, LaughterMarker} : ~contains(t, m)

NoKeyword(t) == \A k \in 1..Len(split_keywords) : ~contains(t, split_keywords[k])

\* C15 (amended): _preprocess_text closes a paragraph on the length
\* threshold only, never on a keyword, and first collapses whitespace and
\* removes the markers.  For a text with normal whitespace and no marker it
\* returns the sentences of _split_paragraphs in the same order, and when
\* the text holds no keyword either, the same paragraphs, joined by blank
\* lines.
C15_SameWithoutKeyword ==
    (pc = "split_done" /\ WhitespaceNormal(text) /\ NoMarker(text)) =>
        /\ SelectSeq(processed_text, LAMBDA c : c # "\n") = Flatten(paragraphs)
        /\ NoKeyword(text) => processed_text = join_str(<<"\n", "\n">>, paragraphs)

C15_Witness ==
    /\ pc = "split_done"
    /\ WhitespaceNormal(text) /\ NoMarker(text) /\ NoKeyword(text)
    /\ Len(paragraphs) >= 2
    /\ processed_text = join_str(<<"\n", "\n">>, paragraphs)

(***************************************************************************)
(* AIOptimizer._postprocess_text                                           *)
(***************************************************************************)

\* text.startswith('#')
startswith_hash(s) == Len(s) > 0 /\ s[1] = "#"

inject_heading_no_blank_line(s, t) ==
    IF ~startswith_hash(s) THEN <<"#", " ">> \o t \o <<"\n">> \o s ELSE s

\* lines 177-178: text = f"# {title}\n\n{text}" unless the text starts with '#'
inject_heading(s, t) ==
    IF ~startswith_hash(s) THEN <<"#", " ">> \o t \o <<"\n", "\n">> \o s ELSE s

needs_toc_any_marker(s) == contains(s, <<"#", "#">>)

\* line 181: '##' in text and '目录' not in text
needs_toc(s) ==
    contains(s, <<"#", "#">>) /\ ~contains(s, <<"U+76EE", "U+5F55">>)

\* the number of consecutive characters of the class cls from position i on
run_length(s, i, cls) ==
    LET stops == {j \in i..Len(s) : s[j] \notin cls}
    IN  IF stops = {} THEN Len(s) - i + 1
        ELSE (CHOOSE j \in stops : \A k \in stops : j <= k) - i

\* r'^(#{1,3})\s+(.+)$' with re.MULTILINE, tried at position i: the marks
\* must be all the '#' there (one to three), \s+ is greedy and may run over
\* line ends but gives back what (.+) needs, (.+) runs to the end of its line
header_match(s, i) ==
    LET marks  == run_length(s, i, {"#"})
        j      == i + marks
        spaces == run_length(s, j, Whitespace)
        widths == {w \in 1..spaces : j + w <= Len(s) /\ s[j + w] # "\n"}
        w      == CHOOSE x \in widths : \A y \in widths : y <= x
        k      == j + w
        last   == k + run_length(s, k, {s[n] : n \in 1..Len(s)} \ {"\n"}) - 1
    IN  IF /\ i <= Len(s)
           /\ (i = 1 \/ s[i - 1] = "\n")
           /\ marks \in 1..3
           /\ widths # {}
        THEN [ok |-> TRUE, level |-> SubSeq(s, i, j - 1),
              header |-> SubSeq(s, k, last), end |-> last]
        ELSE [ok |-> FALSE, level |-> <<>>, header |-> <<>>, end |-> i]

\* re.findall(...): the matches from position i on, left to right, each
\* search starting where the match before ended
RECURSIVE findall_headers(_, _)
findall_headers(s, i) ==
    IF i > Len(s) THEN <<>>
    ELSE LET m == header_match(s, i)
         IN  IF m.ok
             THEN <<[level |-> m.level, header |-> m.header]>>
                      \o findall_headers(s, m.end + 1)
             ELSE findall_headers(s, i + 1)

\* lines 186-188: one line "- [header](#anchor)" per header whose marks are '##'
toc_entries(headers) ==
    Flatten([n \in 1..Len(headers) |->
                IF headers[n].level = <<"#", "#">>
                THEN <<"-", " ", "[">> \o headers[n].header \o <<"]", "(", "#">>
                         \o replace(headers[n].header, " ", "-") \o <<")", "\n">>
                ELSE <<>>])

\* text.replace('#', new, 1): the first '#' of s replaced by new
replace_first_hash(s, new) ==
    IF \A i \in 1..Len(s) : s[i] # "#" THEN s
    ELSE LET p == CHOOSE i \in 1..Len(s) :
                      s[i] = "#" /\ \A j \in 1..(i - 1) : s[j] # "#"
         IN  SubSeq(s, 1, p - 1) \o new \o SubSeq(s, p + 1, Len(s))

\* lines 184-190: the contents section is built and put in place of the
\* first '#'
splice_toc(s, t, headers) ==
    LET toc == TocHeading \o <<"\n", "\n">> \o toc_entries(headers)
    IN  replace_first_hash(s, <<"#", " ">> \o t \o <<"\n", "\n">> \o toc \o <<"\n", "#">>)

_postprocess_text(s, t) ==
    LET t1      == inject_heading(s, t)
        headers == findall_headers(t1, 1)
    IN  IF needs_toc(t1) /\ headers # <<>> THEN splice_toc(t1, t, headers)
        ELSE t1

\* final_text = self._postprocess_text(optimized_text, title)
PostprocessText ==
    /\ pc = "postprocess"
    /\ final_text' = _postprocess_text(optimized_text.v, title)
    /\ pc' = "postprocessed"
    /\ UNCHANGED formatter_vars
    /\ UNCHANGED run_vars
    /\ UNCHANGED <<api_key, processed_text, requests, response, optimized_text>>

\* _postprocess_text once more, on what it returned
PostprocessAgain ==
    /\ pc = "postprocessed"
    /\ optimized_text' = PyStr(final_text)
    /\ final_text' = _postprocess_text(final_text, title)
    /\ pc' = "postprocessed_again"
    /\ UNCHANGED formatter_vars
    /\ UNCHANGED run_vars
    /\ UNCHANGED <<api_key, processed_text, requests, response>>

(***************************************************************************)
(* Specification of _postprocess_text: texts of a few lines, two titles.   *)
(***************************************************************************)

MaxPostLines == 3

PostLines ==
    { <<>>, <<"b">>, <<"#">>, <<"#", " ", "X">>, <<"#", "#", " ", "A">>,
      <<"#", "#", " ", "A", " ", "B">>, <<"#", "#", "#", " ", "C">>,
      <<"b", " ", "#", "#">>, <<"U+76EE", "U+5F55">> }

PostTexts == {join("\n", ls) : ls \in SeqsUpTo(PostLines, MaxPostLines)}

PostTitles == { <<"T">>, <<"X">> }

InitPostprocess ==
    /\ pc = "postprocess"
    /\ text = <<>>
    /\ title \in PostTitles
    /\ cleaned_text = <<>>
    /\ sentences = <<>>
    /\ next_sentence = 1
    /\ current_paragraph = <<>>
    /\ paragraphs = <<>>
    /\ structure = NoStructure
    /\ formatted_text = <<>>
    /\ api_key = "None"
    /\ processed_text = <<>>
    /\ requests = 0
    /\ response = NoResponse
    /\ \E s \in PostTexts : optimized_text = PyStr(s)
    /\ final_text = <<>>
    /\ RunIdle

NextPostprocess == PostprocessText \/ PostprocessAgain

SpecPostprocess == InitPostprocess /\ [][NextPostprocess]_vars

\* p is the beginning of s
IsPrefix(p, s) == Len(p) <= Len(s) /\ SubSeq(s, 1, Len(p)) = p

\* p is the end of s
IsSuffix(p, s) == Len(p) <= Len(s) /\ SubSeq(s, Len(s) - Len(p) + 1, Len(s)) = p

\* '# <title>', a blank line, then the text x
Headed(x, t) == <<"#", " ">> \o t \o <<"\n", "\n">> \o x

\* C16 as stated: a rewritten text that does not begin with '#' comes out
\* as '# <title>', a blank line, then the rewritten text; every output
\* begins with '#'.
C16_Original ==
    pc = "postprocessed" =>
        /\ startswith_hash(final_text)
        /\ ~startswith_hash(optimized_text.v) =>
               IsPrefix(Headed(optimized_text.v, title), final_text)

\* C16 (amended): every output begins with '#'.  For a rewritten text that
\* does not begin with '#', the output begins with '# <title>' and a blank
\* line and ends with the rewritten text; the rewritten text follows the
\* blank line directly (the output is just the headed text) unless the
\* headed text holds '##' and no contents marker, the case in which a
\* contents section is put in between.
C16_HeadingInjected ==
    pc = "postprocessed" =>
        /\ startswith_hash(final_text)
        /\ ~startswith_hash(optimized_text.v) =>
               LET headed == Headed(optimized_text.v, title)
               IN  /\ IsPrefix(Headed(<<>>, title), final_text)
                   /\ IsSuffix(optimized_text.v, final_text)
                   /\ ~(contains(headed, <<"#", "#">>)
                            /\ ~contains(headed, <<"U+76EE", "U+5F55">>)) =>
                          final_text = headed

C16_Witness ==
    /\ pc = "postprocessed"
    /\ optimized_text.v # <<>>
    /\ ~startswith_hash(optimized_text.v)
    /\ final_text = Headed(optimized_text.v, title)

\* the level-2 headings of x: the texts of its lines '## <text>'
Level2Headings(x) ==
    LET lines == SelectSeq(LinesOf(x),
                           LAMBDA l : /\ Len(l) >= 4
                                      /\ SubSeq(l, 1, 2) = <<"#", "#">>
                                      /\ l[3] \in {" ", "\t"}
                                      /\ strip(SubSeq(l, 4, Len(l))) # <<>>)
    IN  [n \in 1..Len(lines) |-> strip(SubSeq(lines[n], 4, Len(lines[n])))]

\* a contents section was synthesized: the output holds the contents marker
\* and the rewritten text did not
TocSynthesized == 
    /\ contains(final_text, <<"U+76EE", "U+5F55">>)
    /\ ~contains(optimized_text.v, <<"U+76EE", "U+5F55">>)

\* the link-style lines of the output
TocEntryLines == SelectSeq(LinesOf(final_text), LAMBDA l : IsPrefix(<<"-", " ", "[">>, l))

\* C17: a contents section is synthesized exactly when the text holds at
\* least one level-2 heading and no contents marker; it then has one
\* link-style entry per level-2 heading, in document order, whose anchor is
\* the heading text with spaces replaced by hyphens, and no other entry.
C17_TocRule ==
    pc = "postprocessed" =>
        LET hs == Level2Headings(optimized_text.v)
        IN  /\ TocSynthesized <=>
                   (hs # <<>> /\ ~contains(optimized_text.v, <<"U+76EE", "U+5F55">>))
            /\ TocSynthesized =>
                   TocEntryLines =
                       [n \in 1..Len(hs) |->
                           <<"-", " ", "[">> \o hs[n] \o <<"]", "(", "#">>
                               \o replace(hs[n], " ", "-") \o <<")">>]

\* the rewritten text with its top heading: injected when it has none
WithTopHeading ==
    IF startswith_hash(optimized_text.v) THEN optimized_text.v
    ELSE Headed(optimized_text.v, title)

\* the lines of t that are not empty
NonBlankLines(t) == SelectSeq(LinesOf(t), LAMBDA l : l # <<>>)

\* the non-empty lines of the output that are not of the contents section
OutsideToc ==
    SelectSeq(NonBlankLines(final_text),
              LAMBDA l : l # TocHeading /\ ~IsPrefix(<<"-", " ", "[">>, l))

\* C18: when a contents section is synthesized it is spliced right after the
\* top heading (injected or existing): the top heading line comes first, the
\* contents section follows it, and the original content, the top heading
\* included and present once, is otherwise unchanged and in its order.
C18_SplicedAfterTopHeading ==
    (pc = "postprocessed" /\ TocSynthesized) =>
        /\ IsPrefix(LinesOf(WithTopHeading)[1], final_text)
        /\ NonBlankLines(final_text)[2] = TocHeading
        /\ OutsideToc = NonBlankLines(WithTopHeading)

FormatClean ==
    /\ pc = "format"
    /\ cleaned_text' = _clean_text(text)
    /\ pc' = "split"
    /\ UNCHANGED optimizer_vars
    /\ UNCHANGED run_vars
    /\ UNCHANGED <<text, title, sentences, next_sentence, current_paragraph,
                   paragraphs, structure, formatted_text>>

FormatAnalyze_skipped ==
    /\ pc = "split_done"
    /\ pc' = "generate"
    /\ UNCHANGED optimizer_vars
    /\ UNCHANGED run_vars
    /\ UNCHANGED <<text, title, cleaned_text, sentences, next_sentence,
                   current_paragraph, paragraphs, structure, formatted_text>>

\* structure = self._analyze_structure(paragraphs)
FormatAnalyze ==
    /\ pc = "split_done"
    /\ structure' = _analyze_structure(paragraphs)
    /\ pc' = "generate"
    /\ UNCHANGED optimizer_vars
    /\ UNCHANGED run_vars
    /\ UNCHANGED <<text, title, cleaned_text, sentences, next_sentence,
                   current_paragraph, paragraphs, formatted_text>>

(***************************************************************************)
(* Specification of format_transcript on the texts of the self-test       *)
(* (lines 298-310): three short sentences, each closed by a terminator.    *)
(***************************************************************************)

\* '这是第一段内容', '这是第二段内容', '这是第三段内容'
TestSentence(numeral) ==
    <<"U+8FD9", "U+662F", "U+7B2C", numeral, "U+6BB5", "U+5185", "U+5BB9">>

ShortSentences ==
    { TestSentence("U+4E00"), TestSentence("U+4E8C"), TestSentence("U+4E09"),
      <<"a", " ", "b">> }

\* '测试文档'
TestTitle == <<"U+6D4B", "U+8BD5", "U+6587", "U+6863">>

ScenarioTitles == { TestTitle, <<"T">> }

InitFormat ==
    /\ pc = "format"
    /\ \E s1 \in ShortSentences, s2 \in ShortSentences, s3 \in ShortSentences,
          t1 \in Terminators, t2 \in Terminators, t3 \in Terminators :
           text = s1 \o <<t1>> \o s2 \o <<t2>> \o s3 \o <<t3>>
    /\ title \in ScenarioTitles
    /\ cleaned_text = <<>>
    /\ sentences = <<>>
    /\ next_sentence = 1
    /\ current_paragraph = <<>>
    /\ paragraphs = <<>>
    /\ structure = NoStructure
    /\ formatted_text = <<>>
    /\ OptimizerIdle
    /\ RunIdle

NextFormat ==
    \/ FormatClean
    \/ SplitSentences
    \/ SplitLoop
    \/ SplitReturn
    \/ FormatAnalyze
    \/ GenerateFormattedText

SpecFormat == InitFormat /\ [][NextFormat]_vars

\* C20 as stated: three short sentences without keyword or title/list
\* prefix, each closed by a terminator, give three paragraphs, all Body, and
\* a document that starts with '# <title>' and holds each sentence followed
\* by a blank line.
C20_Original ==
    pc = "generated" =>
        /\ Len(paragraphs) = 3
        /\ structure.titles = <<>> /\ structure.lists = <<>>
        /\ Len(structure.paragraphs) = 3
        /\ IsPrefix(<<"#", " ">> \o title \o <<"\n">>, formatted_text)
        /\ \A k \in 1..3 :
               \E t \in Terminators :
                   contains(formatted_text, sentences[k] \o <<t, "\n", "\n">>)

\* C20 (amended): the three sentences give one paragraph, the sentences in
\* order, each closed by a full stop; it is Body, and the document is
\* '# <title>', a blank line, that paragraph and a line end.
C20_OneParagraph ==
    pc = "generated" =>
        LET p == sentences[1] \o <<"U+3002">> \o sentences[2] \o <<"U+3002">>
                     \o sentences[3] \o <<"U+3002">>
        IN  /\ paragraphs = <<p>>
            /\ structure.titles = <<>> /\ structure.lists = <<>>
            /\ Len(structure.paragraphs) = 1
            /\ formatted_text = <<"#", " ">> \o title \o <<"\n", "\n">> \o p \o <<"\n">>

C20_Witness ==
    /\ pc = "generated"
    /\ title = TestTitle
    /\ text = TestSentence("U+4E00") \o <<"U+3002">> \o TestSentence("U+4E8C")
                  \o <<"U+FF01">> \o TestSentence("U+4E09") \o <<"U+FF1F">>
    /\ Len(paragraphs) = 1

(***************************************************************************)
(* Specification of format_transcript on texts with a chapter sentence:    *)
(* up to three sentences among a chapter prefix, a short sentence and one  *)
(* with a keyword.                                                         *)
(***************************************************************************)

\* '第一章'
ChapterSentence == <<"U+7B2C", "U+4E00", "U+7AE0">>

MaxChapterSentences == 3

ChapterPieces ==
    { ChapterSentence, <<"a">>, <<"U+9996", "U+5148", "a">> }

ChapterTexts ==
    { Flatten([k \in 1..Len(ss) |-> ss[k] \o <<"U+3002">>]) :
          ss \in SeqsUpTo(ChapterPieces, MaxChapterSentences) }

InitChapter ==
    /\ pc = "format"
    /\ text \in ChapterTexts
    /\ title = <<"T">>
    /\ cleaned_text = <<>>
    /\ sentences = <<>>
    /\ next_sentence = 1
    /\ current_paragraph = <<>>
    /\ paragraphs = <<>>
    /\ structure = NoStructure
    /\ formatted_text = <<>>
    /\ OptimizerIdle
    /\ RunIdle

SpecChapter == InitChapter /\ [][NextFormat]_vars

\* the positions of the chapter sentences among the sentences of the text
ChapterPositions == {k \in 1..Len(sentences) : sentences[k] = ChapterSentence}

\* the titles of level 1 that begin with the chapter sentence
ChapterTitles ==
    {j \in 1..Len(structure.titles) :
        /\ structure.titles[j].level = 1
        /\ IsPrefix(ChapterSentence, structure.titles[j].text)}

\* every chapter title has its line in the contents section, not indented
ChapterTitlesListed ==
    \A j \in ChapterTitles :
        \E n \in 1..Len(LinesOf(formatted_text)) :
            LinesOf(formatted_text)[n] = <<"-", " ">> \o structure.titles[j].text

\* C21 as stated: every sentence '第一章' of the input, wherever it sits,
\* gives a Title of level 1 that the contents section lists without
\* indentation.
C21_Original ==
    pc = "generated" =>
        /\ Cardinality(ChapterTitles) = Cardinality(ChapterPositions)
        /\ ChapterTitlesListed

\* sentence k opens a paragraph: it is the first one, or the sentence
\* before it closed the buffer (a keyword in it, or longer than the threshold)
OpensParagraph(k) ==
    k = 1 \/ _should_split_paragraph(sentences[k - 1] \o <<"U+3002">>)

\* C21 (amended): a sentence '第一章' gives a Title of level 1, listed in
\* the contents section without indentation, when it opens a paragraph (it
\* is the first sentence, or the buffer was flushed right before it); the
\* title is that whole paragraph.  A chapter sentence inside a buffer gives
\* no title.
C21_ChapterOpeningParagraph ==
    pc = "generated" =>
        /\ Cardinality(ChapterTitles) =
               Cardinality({k \in ChapterPositions : OpensParagraph(k)})
        /\ ChapterTitlesListed
        /\ \A j \in ChapterTitles :
               structure.titles[j].text = paragraphs[structure.titles[j].index + 1]

C21_Witness ==
    /\ pc = "generated"
    /\ 2 \in ChapterPositions
    /\ OpensParagraph(2)
    /\ ChapterTitles # {}
    /\ 3 \in ChapterPositions

(***************************************************************************)
(* AIOptimizer.optimize_text: preprocess, gateway, postprocess, save,      *)
(* statistics, inside one try/except that turns any exception into None.   *)
(***************************************************************************)

\* "".join(c for c in title if c.isalnum() or c in (' ', '-', '_')).rstrip()
safe_title_optimized(t) ==
    LET kept   == SelectSeq(t, LAMBDA c : c \in WordChars \cup {" ", "-"})
        others == {i \in 1..Len(kept) : kept[i] \notin Whitespace}
        last   == IF others = {} THEN 0
                  ELSE CHOOSE i \in others : \A j \in others : j <= i
    IN  SubSeq(kept, 1, last)

\* output_dir / f"{safe_title}_optimized.md"
optimized_path(t) ==
    [dir |-> "optimized",
     name |-> safe_title_optimized(t)
                  \o <<"_", "o", "p", "t", "i", "m", "i", "z", "e", "d", ".", "m", "d">>]

\* s.count('\n\n'): occurrences counted left to right without overlap, so a
\* run of n line ends holds n \div 2 of them
count_blank_lines(s) ==
    LET opens == {i \in 1..Len(s) : s[i] = "\n" /\ (i = 1 \/ s[i - 1] # "\n")}
        RECURSIVE total(_)
        total(S) == IF S = {} THEN 0
                    ELSE LET i == CHOOSE x \in S : TRUE
                         IN  (run_length(s, i, {"\n"}) \div 2) + total(S \ {i})
    IN  total(opens)

calculate_stats_reversed(original, optimized) ==
    [original_length  |-> Len(original),
     optimized_length |-> Len(optimized),
     length_change    |-> Len(original) - Len(optimized),
     paragraph_count  |-> count_blank_lines(optimized) + 1,
     header_count     |-> Cardinality({i \in 1..Len(optimized) : optimized[i] = "#"})]

_calculate_stats(original, optimized) ==
    [original_length  |-> Len(original),
     optimized_length |-> Len(optimized),
     length_change    |-> Len(optimized) - Len(original),
     paragraph_count  |-> count_blank_lines(optimized) + 1,
     header_count     |-> Cardinality({i \in 1..Len(optimized) : optimized[i] = "#"})]

\* lines 66-67: processed_text = self._preprocess_text(text); a text that is
\* not a str has no split(): the exception ends the call with None
OptimizePreprocess ==
    /\ pc = "optimize"
    /\ IF source.kind = "str"
       THEN /\ text' = source.v
            /\ processed_text' = _preprocess_text(source.v)
            /\ pc' = "call"
            /\ UNCHANGED returned
       ELSE /\ returned' = PyNone
            /\ pc' = "optimize_returned"
            /\ UNCHANGED <<text, processed_text>>
    /\ UNCHANGED <<title, cleaned_text, sentences, next_sentence, current_paragraph,
                   paragraphs, structure, formatted_text>>
    /\ UNCHANGED <<api_key, requests, response, optimized_text, final_text>>
    /\ UNCHANGED <<source, writes>>
    /\ UNCHANGED <<template_vars, main_vars>>

\* lines 72-73: final_text = self._postprocess_text(optimized_text, title);
\* what the gateway returned has startswith() only if it is a str
OptimizePostprocess ==
    /\ pc = "returned"
    /\ IF optimized_text.kind = "str"
       THEN /\ final_text' = _postprocess_text(optimized_text.v, title)
            /\ pc' = "optimize_save"
            /\ UNCHANGED returned
       ELSE /\ returned' = PyNone
            /\ pc' = "optimize_returned"
            /\ UNCHANGED final_text
    /\ UNCHANGED formatter_vars
    /\ UNCHANGED <<api_key, processed_text, requests, response, optimized_text>>
    /\ UNCHANGED <<source, writes>>
    /\ UNCHANGED <<template_vars, main_vars>>

\* lines 75-87: the file is written and the result built; if the file
\* cannot be opened, the exception ends the call with None
OptimizeSave ==
    /\ pc = "optimize_save"
    /\ \/ /\ writes' = Append(writes, [path |-> optimized_path(title),
                                       content |-> final_text])
          /\ returned' =
                 PyDict([title |-> title,
                         original_text |-> source.v,
                         optimized_text |-> final_text,
                         output_path |-> optimized_path(title),
                         optimization_stats |-> _calculate_stats(source.v, final_text)])
       \/ /\ returned' = PyNone
          /\ UNCHANGED writes
    /\ pc' = "optimize_returned"
    /\ UNCHANGED formatter_vars
    /\ UNCHANGED optimizer_vars
    /\ UNCHANGED source
    /\ UNCHANGED <<template_vars, main_vars>>

(***************************************************************************)
(* Specification of optimize_text: a few texts (or None), two titles, any  *)
(* key, every outcome of the endpoint and of the file system.              *)
(***************************************************************************)

OptimizeTexts ==
    { <<>>, <<"a">>, <<"a", "U+3002">>, <<"#", " ", "a", "U+3002">>,
      <<" ", "a", " ", " ", "b", "U+FF01", "b">>, <<"#", "#", " ", "a">> }

OptimizeTitles == { <<"T">>, <<"T", " ", "2">> }

InitOptimize ==
    /\ pc = "optimize"
    /\ text = <<>>
    /\ title \in OptimizeTitles
    /\ cleaned_text = <<>>
    /\ sentences = <<>>
    /\ next_sentence = 1
    /\ current_paragraph = <<>>
    /\ paragraphs = <<>>
    /\ structure = NoStructure
    /\ formatted_text = <<>>
    /\ api_key \in ApiKeys
    /\ processed_text = <<>>
    /\ requests = 0
    /\ response = NoResponse
    /\ optimized_text = PyNone
    /\ final_text = <<>>
    /\ \/ source = PyNone
       \/ \E s \in OptimizeTexts : source = PyStr(s)
    /\ writes = <<>>
    /\ returned = PyNone
    /\ TemplateIdle
    /\ MainIdle

NextOptimize ==
    \/ OptimizePreprocess
    \/ CallPassThrough
    \/ CallPost
    \/ CallReturn
    \/ OptimizePostprocess
    \/ OptimizeSave

SpecOptimize == InitOptimize /\ [][NextOptimize]_vars

\* optimize_text is over and returned a result
OptimizeSucceeded == pc = "optimize_returned" /\ returned.kind = "dict"

\* C22 as stated: without a credential the optimized text of the result is
\* the input text exactly and length_change is 0.
C22_Original ==
    (OptimizeSucceeded /\ api_key \in {"None", ""}) =>
        /\ returned.v.optimized_text = source.v
        /\ returned.v.optimization_stats.length_change = 0

\* C22 (amended): without a credential the gateway returns the preprocessed
\* text exactly and makes no request; the optimized text of the result is
\* that text after _postprocess_text (headed by '# <title>' and a blank line
\* when it does not begin with '#'), and length_change is its length minus
\* the length of the input text.
C22_PassThroughResult ==
    (OptimizeSucceeded /\ api_key \in {"None", ""}) =>
        /\ optimized_text = PyStr(processed_text)
        /\ requests = 0
        /\ returned.v.optimized_text = final_text
        /\ ~startswith_hash(processed_text) =>
               /\ IsPrefix(Headed(<<>>, title), final_text)
               /\ IsSuffix(processed_text, final_text)
        /\ startswith_hash(processed_text) => IsSuffix(processed_text, final_text)
        /\ returned.v.optimization_stats.length_change =
               Len(returned.v.optimized_text) - Len(source.v)

C22_Witness ==
    /\ OptimizeSucceeded
    /\ api_key = "None"
    /\ source.v = <<"a", "U+3002">>
    /\ returned.v.optimized_text = Headed(source.v, title)
    /\ returned.v.optimization_stats.length_change = Len(title) + 4

(***************************************************************************)
(* prompt_templates.py: the four prompt templates and their selection.     *)
(* A template is written line by line; a line of prose is one element      *)
(* ("prose1" .. "prose23", equal lines being equal elements: no line of    *)
(* prose holds a brace), the line {text} is its six characters.            *)
(***************************************************************************)

Placeholder == <<"{", "t", "e", "x", "t", "}">>

BASIC_OPTIMIZATION_PROMPT ==
    join("\n",
       << <<>>, <<"prose1">>, <<>>, <<"prose2">>, <<"prose3">>,
          <<"prose4">>, <<"prose5">>, <<"prose6">>, <<"prose7">>, <<"prose8">>,
          <<>>, <<"prose9">>, Placeholder, <<>>, <<"prose10">>,
          <<>> >>)

ACADEMIC_OPTIMIZATION_PROMPT ==
    join("\n",
       << <<>>, <<"prose11">>, <<>>, <<"prose2">>, <<"prose3">>,
          <<"prose12">>, <<"prose13">>, <<"prose14">>, <<"prose15">>, <<"prose16">>,
          <<"prose17">>, <<>>, <<"prose9">>, Placeholder, <<>>,
          <<"prose10">>, <<>> >>)

BUSINESS_OPTIMIZATION_PROMPT ==
    join("\n",
       << <<>>, <<"prose18">>, <<>>, <<"prose2">>, <<"prose3">>,
          <<"prose19">>, <<"prose13">>, <<"prose14">>, <<"prose15">>, <<"prose16">>,
          <<"prose17">>, <<"prose20">>, <<>>, <<"prose9">>, Placeholder,
          <<>>, <<"prose10">>, <<>> >>)

TECHNICAL_OPTIMIZATION_PROMPT ==
    join("\n",
       << <<>>, <<"prose21">>, <<>>, <<"prose2">>, <<"prose3">>,
          <<"prose22">>, <<"prose13">>, <<"prose14">>, <<"prose15">>, <<"prose16">>,
          <<"prose17">>, <<"prose23">>, <<>>, <<"prose9">>, Placeholder,
          <<>>, <<"prose10">>, <<>> >>)

PROMPT_TEMPLATES ==
    [s \in {"basic", "academic", "business", "technical"} |->
        CASE s = "basic"     -> BASIC_OPTIMIZATION_PROMPT
          [] s = "academic"  -> ACADEMIC_OPTIMIZATION_PROMPT
          [] s = "business"  -> BUSINESS_OPTIMIZATION_PROMPT
          [] s = "technical" -> TECHNICAL_OPTIMIZATION_PROMPT]

get_prompt_template_academic_default(s) ==
    IF s \in DOMAIN PROMPT_TEMPLATES THEN PROMPT_TEMPLATES[s]
    ELSE ACADEMIC_OPTIMIZATION_PROMPT

\* PROMPT_TEMPLATES.get(style, BASIC_OPTIMIZATION_PROMPT)
get_prompt_template(s) ==
    IF s \in DOMAIN PROMPT_TEMPLATES THEN PROMPT_TEMPLATES[s]
    ELSE BASIC_OPTIMIZATION_PROMPT

\* the replacement fields of a format string: [from, to] of each {...}
RECURSIVE fields_from(_, _)
fields_from(p, i) ==
    IF i > Len(p) THEN <<>>
    ELSE IF p[i] = "{"
    THEN LET closers == {j \in i + 1..Len(p) : p[j] = "}"}
         IN  IF closers = {} THEN <<[from |-> i, to |-> 0]>>
             ELSE LET j == CHOOSE x \in closers : \A y \in closers : x <= y
                  IN  <<[from |-> i, to |-> j]>> \o fields_from(p, j + 1)
    ELSE IF p[i] = "}" THEN <<[from |-> 0, to |-> i]>>
    ELSE fields_from(p, i + 1)

\* p.format(text=t): every field {text} becomes t, which is not parsed
\* again; another field name, or a brace without its partner, raises
RECURSIVE fill(_, _, _, _)
fill(p, fs, i, t) ==
    IF fs = <<>> THEN SubSeq(p, i, Len(p))
    ELSE SubSeq(p, i, fs[1].from - 1) \o t \o fill(p, Tail(fs), fs[1].to + 1, t)

format_text(p, t) ==
    LET fs == fields_from(p, 1)
    IN  IF \A k \in 1..Len(fs) :
               /\ fs[k].from > 0
               /\ fs[k].to > 0
               /\ SubSeq(p, fs[k].from, fs[k].to) = Placeholder
        THEN PyStr(fill(p, fs, 1, t))
        ELSE Raised

\* get_prompt_template(style)
GetPromptTemplate ==
    /\ pc = "template"
    /\ template' = get_prompt_template(style)
    /\ pc' = "template_selected"
    /\ UNCHANGED formatter_vars
    /\ UNCHANGED optimizer_vars
    /\ UNCHANGED <<call_vars, main_vars>>
    /\ UNCHANGED <<style, prompt>>

\* prompt.format(text=text), as the adapters fill a template
FormatPrompt ==
    /\ pc = "template_selected"
    /\ prompt' = format_text(template, text)
    /\ pc' = "prompt_built"
    /\ UNCHANGED formatter_vars
    /\ UNCHANGED optimizer_vars
    /\ UNCHANGED <<call_vars, main_vars>>
    /\ UNCHANGED <<style, template>>

(***************************************************************************)
(* Specification of the template selection: the four styles, other names,  *)
(* and texts that may hold braces themselves.                              *)
(***************************************************************************)

Styles ==
    {"basic", "academic", "business", "technical",
     "", "Basic", "BASIC", "formal", "text", "default"}

MaxPromptTextLen == 2

PromptTexts == SeqsUpTo({"a", "{", "}"}, MaxPromptTextLen)

InitTemplate ==
    /\ pc = "template"
    /\ text \in PromptTexts
    /\ title = <<>>
    /\ cleaned_text = <<>>
    /\ sentences = <<>>
    /\ next_sentence = 1
    /\ current_paragraph = <<>>
    /\ paragraphs = <<>>
    /\ structure = NoStructure
    /\ formatted_text = <<>>
    /\ OptimizerIdle
    /\ CallIdle
    /\ style \in Styles
    /\ template = <<>>
    /\ prompt = PyNone
    /\ MainIdle

NextTemplate == GetPromptTemplate \/ FormatPrompt

SpecTemplate == InitTemplate /\ [][NextTemplate]_vars

\* s.count('{text}')
count_placeholder(p) ==
    Cardinality({i \in 1..Len(p) : i + 5 <= Len(p) /\ SubSeq(p, i, i + 5) = Placeholder})

\* C23: get_prompt_template returns the template named by the style for
\* 'basic', 'academic', 'business' and 'technical' (four different
\* templates), the 'basic' template for every other style, and the template
\* returned holds the placeholder {text} exactly once (so that filling it
\* puts the text in once, in the place of the placeholder).
C23_TemplateSelection ==
    pc \in {"template_selected", "prompt_built"} =>
        /\ style = "basic" => template = BASIC_OPTIMIZATION_PROMPT
        /\ style = "academic" => template = ACADEMIC_OPTIMIZATION_PROMPT
        /\ style = "business" => template = BUSINESS_OPTIMIZATION_PROMPT
        /\ style = "technical" => template = TECHNICAL_OPTIMIZATION_PROMPT
        /\ style \notin {"basic", "academic", "business", "technical"} =>
               template = BASIC_OPTIMIZATION_PROMPT
        /\ Cardinality({BASIC_OPTIMIZATION_PROMPT, ACADEMIC_OPTIMIZATION_PROMPT,
                        BUSINESS_OPTIMIZATION_PROMPT, TECHNICAL_OPTIMIZATION_PROMPT}) = 4
        /\ count_placeholder(template) = 1
        /\ pc = "prompt_built" =>
               /\ prompt.kind = "str"
               /\ Len(prompt.v) = Len(template) - Len(Placeholder) + Len(text)

C23_Witness ==
    /\ pc = "prompt_built"
    /\ style = "formal"
    /\ template = BASIC_OPTIMIZATION_PROMPT
    /\ text = <<"{", "a">>
    /\ prompt.kind = "str"

(***************************************************************************)
(* DocumentFormatter.format_transcript: entry and _save_formatted_text.    *)
(***************************************************************************)

\* re.sub(r'\s+', '_', re.sub(r'[^\w\s-]', '', title))
safe_title_formatted(t) ==
    replace(sub_whitespace(SelectSeq(t, LAMBDA c : c \in WordChars \cup Whitespace \cup {"-"})),
            " ", "_")

\* self.output_dir / f"{safe_title}_formatted.md"
formatted_path(t) ==
    [dir |-> "formatted",
     name |-> safe_title_formatted(t)
                  \o <<"_", "f", "o", "r", "m", "a", "t", "t", "e", "d", ".", "m", "d">>]

\* lines 62-63: cleaned_text = self._clean_text(text); re.sub() of a text
\* that is not a str raises, and the call ends with None
FormatEnter ==
    /\ pc = "format_call"
    /\ IF source.kind = "str"
       THEN /\ text' = source.v
            /\ pc' = "format"
            /\ UNCHANGED returned
       ELSE /\ returned' = PyNone
            /\ pc' = "format_returned"
            /\ UNCHANGED text
    /\ UNCHANGED <<title, cleaned_text, sentences, next_sentence, current_paragraph,
                   paragraphs, structure, formatted_text>>
    /\ UNCHANGED optimizer_vars
    /\ UNCHANGED <<source, writes>>
    /\ UNCHANGED <<template_vars, main_vars>>

format_save_twice(ws, t, ft) ==
    Append(Append(ws, [path |-> formatted_path(t), content |-> ft]),
           [path |-> formatted_path(t), content |-> ft])

\* _save_formatted_text, line 271-272: the file is opened and written
format_save(ws, t, ft) == Append(ws, [path |-> formatted_path(t), content |-> ft])

\* lines 74-85: the file is written and the result built; if the file
\* cannot be opened, the exception ends the call with None
FormatSave ==
    /\ pc = "generated"
    /\ \/ /\ writes' = format_save(writes, title, formatted_text)
          /\ returned' =
                 PyDict([title |-> title,
                         formatted_text |-> formatted_text,
                         output_path |-> formatted_path(title),
                         structure |-> structure,
                         paragraph_count |-> Len(paragraphs)])
       \/ /\ returned' = PyNone
          /\ UNCHANGED writes
    /\ pc' = "format_returned"
    /\ UNCHANGED formatter_vars
    /\ UNCHANGED optimizer_vars
    /\ UNCHANGED source
    /\ UNCHANGED <<template_vars, main_vars>>

(***************************************************************************)
(* Specification of the two save steps: a document of either kind is about *)
(* to be saved under a title of letters, digits, marks and whitespace.     *)
(***************************************************************************)

TitleChars == {"a", "1", "_", "-", " ", "\t", "!", "U+6587"}

MaxTitleLen == 3

SaveTitles == SeqsUpTo(TitleChars, MaxTitleLen)

SaveDocument == <<"#", " ", "a", "\n", "\n", "b">>

InitSave ==
    /\ pc \in {"generated", "optimize_save"}
    /\ text = <<"b">>
    /\ title \in SaveTitles
    /\ cleaned_text = <<"b">>
    /\ sentences = <<<<"b">>>>
    /\ next_sentence = 2
    /\ current_paragraph = <<>>
    /\ paragraphs = <<<<"b">>>>
    /\ structure = _analyze_structure(<<<<"b">>>>)
    /\ formatted_text = IF pc = "generated" THEN SaveDocument ELSE <<>>
    /\ api_key = "None"
    /\ processed_text = IF pc = "optimize_save" THEN <<"b">> ELSE <<>>
    /\ requests = 0
    /\ response = NoResponse
    /\ optimized_text = IF pc = "optimize_save" THEN PyStr(<<"b">>) ELSE PyNone
    /\ final_text = IF pc = "optimize_save" THEN SaveDocument ELSE <<>>
    /\ source = PyStr(<<"b">>)
    /\ writes = <<>>
    /\ returned = PyNone
    /\ TemplateIdle
    /\ MainIdle

NextSave == FormatSave \/ OptimizeSave

SpecSave == InitSave /\ [][NextSave]_vars

\* the sanitized title of the claim: characters other than word characters,
\* whitespace and hyphen are dropped, then each whitespace run is one "_"
SanitizedTitle(t) ==
    LET kept   == SelectSeq(t, LAMBDA c : c \in WordChars \cup Whitespace \cup {"-"})
        firsts == {i \in 1..Len(kept) :
                      kept[i] \in Whitespace => (i = 1 \/ kept[i - 1] \notin Whitespace)}
        runs   == select_positions(kept, firsts)
    IN  [i \in 1..Len(runs) |-> IF runs[i] \in Whitespace THEN "_" ELSE runs[i]]

FormattedSuffix == <<"_", "f", "o", "r", "m", "a", "t", "t", "e", "d", ".", "m", "d">>

OptimizedSuffix == <<"_", "o", "p", "t", "i", "m", "i", "z", "e", "d", ".", "m", "d">>

\* a document has been saved
Saved == pc \in {"format_returned", "optimize_returned"} /\ Len(writes) = 1

\* C24: either file is named by the same sanitized title (the characters
\* other than word characters, whitespace and hyphen dropped, every
\* whitespace run one underscore) followed by its suffix, '_formatted.md'
\* or '_optimized.md'.
C24_Original ==
    Saved =>
        /\ pc = "format_returned" =>
               writes[1].path.name = SanitizedTitle(title) \o FormattedSuffix
        /\ pc = "optimize_returned" =>
               writes[1].path.name = SanitizedTitle(title) \o OptimizedSuffix

(***************************************************************************)
(* Specification of one call of format_transcript or of optimize_text,     *)
(* on a text or on None, with every outcome of the endpoint and of the     *)
(* file system.                                                            *)
(***************************************************************************)

InitPersist ==
    /\ pc \in {"format_call", "optimize"}
    /\ text = <<>>
    /\ title \in OptimizeTitles
    /\ cleaned_text = <<>>
    /\ sentences = <<>>
    /\ next_sentence = 1
    /\ current_paragraph = <<>>
    /\ paragraphs = <<>>
    /\ structure = NoStructure
    /\ formatted_text = <<>>
    /\ api_key \in ApiKeys
    /\ processed_text = <<>>
    /\ requests = 0
    /\ response = NoResponse
    /\ optimized_text = PyNone
    /\ final_text = <<>>
    /\ \/ source = PyNone
       \/ \E s \in OptimizeTexts : source = PyStr(s)
    /\ writes = <<>>
    /\ returned = PyNone
    /\ TemplateIdle
    /\ MainIdle

NextPersist ==
    \/ FormatEnter
    \/ FormatClean
    \/ SplitSentences
    \/ SplitLoop
    \/ SplitReturn
    \/ FormatAnalyze
    \/ GenerateFormattedText
    \/ FormatSave
    \/ OptimizePreprocess
    \/ CallPassThrough
    \/ CallPost
    \/ CallReturn
    \/ OptimizePostprocess
    \/ OptimizeSave

SpecPersist == InitPersist /\ [][NextPersist]_vars

\* the call is over
CallOver == pc \in {"format_returned", "optimize_returned"}

\* C25: a call of format_transcript or optimize_text that succeeds has
\* written one file, the document of its result at the path of its result,
\* and nothing is written before the step that ends the call; a call whose
\* text is missing (None) ends with None and has written no file.
C25_PersistedOnce ==
    /\ ~CallOver => (writes = <<>> /\ returned = PyNone)
    /\ CallOver =>
           /\ returned.kind \in {"dict", "None"}
           /\ returned.kind = "dict" =>
                  /\ Len(writes) = 1
                  /\ writes[1].path = returned.v.output_path
                  /\ pc = "format_returned" =>
                         writes[1].content = returned.v.formatted_text
                  /\ pc = "optimize_returned" =>
                         writes[1].content = returned.v.optimized_text
           /\ returned.kind = "None" => writes = <<>>
           /\ source.kind # "str" => (returned = PyNone /\ writes = <<>>)

C25_Witness ==
    /\ pc = "format_returned"
    /\ returned.kind = "dict"
    /\ Len(writes) = 1
    /\ writes[1].content = returned.v.formatted_text
    /\ source = PyStr(<<"a", "U+3002">>)

\* C26: whatever the endpoint did (no answer, any status, any body), the
\* step after the gateway of a call of optimize_text on a text goes on to
\* save a document that begins with a heading: the call can only fail if
\* the file cannot be written.
C26_NeverHardFailure ==
    [][(pc = "returned" /\ source.kind = "str") =>
           /\ pc' = "optimize_save"
           /\ startswith_hash(final_text')]_vars

\* the flush condition of the claim: more than 200 characters, or a
\* transition keyword somewhere in the text
FlushCondition(s) ==
    \/ Len(s) > MaxParagraphLength
    \/ \E k \in 1..Len(split_keywords) : contains(s, split_keywords[k])

\* what a text is after each of its sentences but the last
ProperSentencePrefixes(p) ==
    {SubSeq(p, 1, i) : i \in {j \in 1..(Len(p) - 1) : p[j] = "U+3002"}}

\* the non-blank fragments among the sentences already read, stripped
FragmentsRead ==
    LET read     == SubSeq(sentences, 1, next_sentence - 1)
        stripped == [k \in 1..Len(read) |-> strip(read[k])]
    IN  SelectSeq(stripped, LAMBDA f : f # <<>>)

\* C27: during segmentation the paragraphs emitted so far followed by the
\* buffer hold the sentences read so far, in order; every paragraph emitted
\* in the loop satisfies the flush condition (more than 200 characters or a
\* transition keyword) and the buffer never does after a sentence has been
\* dealt with, so the buffer is flushed, and emptied, exactly when the
\* condition holds; no paragraph satisfies the condition before its last
\* sentence; at the end a non-empty buffer is the last paragraph, so every
\* paragraph except possibly the last satisfies the condition.
C27_FlushRule ==
    /\ pc = "split_loop" =>
           /\ ~FlushCondition(current_paragraph)
           /\ \A k \in 1..Len(paragraphs) : FlushCondition(paragraphs[k])
           /\ Flatten([k \in 1..Len(paragraphs) |-> SentencesOf(paragraphs[k])])
                  \o SentencesOf(current_paragraph) = FragmentsRead
    /\ pc = "split_done" =>
           /\ \A k \in 1..(Len(paragraphs) - 1) : FlushCondition(paragraphs[k])
           /\ current_paragraph # <<>> =>
                  /\ paragraphs # <<>>
                  /\ paragraphs[Len(paragraphs)] = current_paragraph
           /\ (current_paragraph = <<>> /\ paragraphs # <<>>) =>
                  FlushCondition(paragraphs[Len(paragraphs)])
    /\ pc \in {"split_loop", "split_done"} =>
           \A k \in 1..Len(paragraphs) :
               \A q \in ProperSentencePrefixes(paragraphs[k]) : ~FlushCondition(q)

\* C27 witness: a paragraph flushed in the loop by its length, and a
\* remainder without length or keyword emitted at the end
C27_Witness ==
    /\ pc = "split_done"
    /\ Len(paragraphs) = 2
    /\ Len(paragraphs[1]) > MaxParagraphLength
    /\ current_paragraph # <<>>
    /\ paragraphs[2] = current_paragraph
    /\ ~FlushCondition(paragraphs[2])

(***************************************************************************)
(* Specification of classification followed by rendering, on paragraphs    *)
(* that begin as the list patterns say (digits and a mark, numerals and a  *)
(* mark, a parenthesized number, numeral or mix of both) or do not.        *)
(***************************************************************************)

ListStarts ==
    { <<"1", ".">>, <<"1", "2", "U+3001">>, <<"U+4E00", "U+3001">>,
      <<"U+4E00", "U+4E8C", ".">>, <<"(", "1", ")">>, <<"U+FF08", "U+4E00", "U+FF09">>,
      <<"(", "1", "U+4E00", ")">>, <<"1">>, <<>> }

ListParagraphs == {s \o <<"a", "U+3002">> : s \in ListStarts}

MaxListParagraphs == 2

InitLists ==
    /\ pc = "split_done"
    /\ text = <<>>
    /\ title = <<"T">>
    /\ cleaned_text = <<>>
    /\ sentences = <<>>
    /\ next_sentence = 1
    /\ current_paragraph = <<>>
    /\ paragraphs \in SeqsUpTo(ListParagraphs, MaxListParagraphs)
    /\ structure = NoStructure
    /\ formatted_text = <<>>
    /\ OptimizerIdle
    /\ RunIdle

NextLists == FormatAnalyze \/ GenerateFormattedText

SpecLists == InitLists /\ [][NextLists]_vars

\* C29: every paragraph that matches a numeric-dot or numeral-word list
\* pattern matches a title pattern and is classified as a Title; every
\* ListItem has kind 'bullet' and begins with a parenthesized prefix that
\* holds a numeral; the rendered text gives each ListItem the bullet marker
\* and never holds a paragraph behind the marker '1. ' or '- '.
C29_OnlyBulletLists ==
    pc \in {"generate", "generated"} =>
        /\ \A k \in 1..Len(paragraphs) :
               (\/ re_match(list_patterns[1], paragraphs[k])
                \/ re_match(list_patterns[2], paragraphs[k])) =>
                   /\ MatchesAny(title_patterns, paragraphs[k])
                   /\ LabelOf(k - 1) = "Title"
        /\ \A k \in 1..Len(structure.lists) :
               LET l == structure.lists[k]
               IN  /\ l.type = "bullet"
                   /\ re_match(list_patterns[3], l.text)
                   /\ l.text[1] \in OpenParens
                   /\ \E i \in 2..Len(l.text) :
                          /\ l.text[i] \in ChineseNumerals
                          /\ \A j \in 2..i : l.text[j] \in ChineseNumerals \cup Digits
        /\ pc = "generated" =>
               LET lines == LinesOf(formatted_text)
               IN  /\ \A k \in 1..Len(lines), n \in 1..Len(paragraphs) :
                          /\ lines[k] # <<"1", ".", " ">> \o paragraphs[n]
                          /\ lines[k] # <<"-", " ">> \o paragraphs[n]
                   /\ \A k \in 1..Len(structure.lists) :
                          \E n \in 1..Len(lines) :
                              lines[n] = <<"U+2022", " ">> \o structure.lists[k].text

\* C29 witness: a rendered text with a paragraph of each list pattern: a
\* numeric-dot one (a Title) and a parenthesized numeral (a ListItem)
C29_Witness ==
    /\ pc = "generated"
    /\ Len(paragraphs) = 2
    /\ re_match(list_patterns[1], paragraphs[1])
    /\ LabelOf(0) = "Title"
    /\ LabelOf(1) = "ListItem"
    /\ structure.lists[1].type = "bullet"

(***************************************************************************)
(* main.py: YouTubeToTextProcessor.process_multiple_videos, which handles  *)
(* the videos one after the other, and _perform_transcription, which       *)
(* transcribes a video, formats the transcript and hands it to the         *)
(* optimizer.  Download, conversion and transcription are the environment: *)
(* each video either fails before a transcript exists or gets a transcript.*)
(***************************************************************************)

\* '转录文档', the default of transcript_result.get('title', ...)
DefaultTitle == <<"U+8F6C", "U+5F55", "U+6587", "U+6863">>

\* the dict transcribe_audio returns (whisper_transcriber.py, lines 90-97):
\* its text and the path of the audio it was made from; it has no 'title'
transcript_result(t, input_path) ==
    PyDict([text |-> t, audio_path |-> input_path])

\* transcript_result.get('title', '转录文档')
get_title(tr) ==
    IF "title" \in DOMAIN tr.v THEN tr.v.title ELSE DefaultTitle

\* self.optimizer and self.config.get('optimizer.enable_ai_optimization'):
\* __init__ creates the optimizer only if the switch is on and a key is set
optimizer_enabled == config.enable_ai_optimization /\ has_api_key(api_key)

\* the locals of a call that has returned
FormatterLocalsGone ==
    /\ text' = <<>>
    /\ cleaned_text' = <<>>
    /\ sentences' = <<>>
    /\ next_sentence' = 1
    /\ current_paragraph' = <<>>
    /\ paragraphs' = <<>>
    /\ structure' = NoStructure
    /\ formatted_text' = <<>>

OptimizerLocalsGone ==
    /\ text' = <<>>
    /\ processed_text' = <<>>
    /\ response' = NoResponse
    /\ optimized_text' = PyNone
    /\ final_text' = <<>>

\* the texts a transcription can give (stripped, as transcribe_audio does)
TranscriptTexts == { <<"a", "U+3002">>, <<"b">> }

\* process_single_video up to line 218 of _perform_transcription: the result
\* starts with success False and no steps; without a transcript it is
\* returned as it is, with one the transcript is recorded and success set
PerformTranscription ==
    /\ pc = "main"
    /\ queue # <<>>
    /\ \/ /\ transcript' = PyNone
          /\ steps' = NoSteps
          /\ success' = FALSE
          /\ pc' = "video_done"
       \/ \E t \in TranscriptTexts :
              /\ transcript' = transcript_result(t, Head(queue))
              /\ steps' = [NoSteps EXCEPT !.transcribe = transcript']
              /\ success' = TRUE
              /\ pc' = "step4"
    /\ UNCHANGED formatter_vars
    /\ UNCHANGED optimizer_vars
    /\ UNCHANGED <<call_vars, template_vars>>
    /\ UNCHANGED <<config, queue, results>>

\* lines 222-227: format_transcript is called if formatting is switched on
StartFormat ==
    /\ pc = "step4"
    /\ IF config.enable_basic_formatting
       THEN /\ source' = PyStr(transcript.v.text)
            /\ title' = get_title(transcript)
            /\ returned' = PyNone
            /\ pc' = "format_call"
       ELSE /\ pc' = "step5"
            /\ UNCHANGED <<source, title, returned>>
    /\ UNCHANGED <<text, cleaned_text, sentences, next_sentence, current_paragraph,
                   paragraphs, structure, formatted_text>>
    /\ UNCHANGED optimizer_vars
    /\ UNCHANGED <<writes, template_vars, main_vars>>

\* the formatting failure ends the processing of the video
RecordFormat_abort ==
    /\ pc = "format_returned"
    /\ IF returned.kind = "dict"
       THEN steps' = [steps EXCEPT !.format = returned] /\ pc' = "step5"
       ELSE UNCHANGED steps /\ pc' = "video_done"
    /\ FormatterLocalsGone
    /\ UNCHANGED title
    /\ UNCHANGED optimizer_vars
    /\ UNCHANGED <<call_vars, template_vars>>
    /\ UNCHANGED <<config, queue, transcript, success, results>>

\* lines 228-232: a result is recorded as the step 'format', a failure
\* (None) is logged
RecordFormat ==
    /\ pc = "format_returned"
    /\ steps' = IF returned.kind = "dict"
                THEN [steps EXCEPT !.format = returned] ELSE steps
    /\ pc' = "step5"
    /\ FormatterLocalsGone
    /\ UNCHANGED title
    /\ UNCHANGED optimizer_vars
    /\ UNCHANGED <<call_vars, template_vars>>
    /\ UNCHANGED <<config, queue, transcript, success, results>>

\* lines 235-241: optimize_text is called on the transcript's text if there
\* is an optimizer and it is switched on; otherwise the result is returned
StartOptimize ==
    /\ pc = "step5"
    /\ IF optimizer_enabled
       THEN /\ source' = PyStr(transcript.v.text)
            /\ title' = get_title(transcript)
            /\ returned' = PyNone
            /\ pc' = "optimize"
       ELSE /\ pc' = "video_done"
            /\ UNCHANGED <<source, title, returned>>
    /\ UNCHANGED <<text, cleaned_text, sentences, next_sentence, current_paragraph,
                   paragraphs, structure, formatted_text>>
    /\ UNCHANGED optimizer_vars
    /\ UNCHANGED <<writes, template_vars, main_vars>>

\* lines 242-248: a result is recorded as the step 'ai_optimization', a
\* failure (None) is logged; the result of the video is returned
RecordOptimize ==
    /\ pc = "optimize_returned"
    /\ steps' = IF returned.kind = "dict"
                THEN [steps EXCEPT !.ai_optimization = returned] ELSE steps
    /\ pc' = "video_done"
    /\ OptimizerLocalsGone
    /\ UNCHANGED <<title, cleaned_text, sentences, next_sentence, current_paragraph,
                   paragraphs, structure, formatted_text>>
    /\ UNCHANGED <<api_key, requests>>
    /\ UNCHANGED <<call_vars, template_vars>>
    /\ UNCHANGED <<config, queue, transcript, success, results>>

\* process_multiple_videos, lines 265-267: the result of the video is
\* appended and the loop goes on with the next input path
FinishVideo ==
    /\ pc = "video_done"
    /\ results' = Append(results, [input_path |-> Head(queue),
                                   success |-> success,
                                   steps |-> steps])
    /\ queue' = Tail(queue)
    /\ transcript' = PyNone
    /\ steps' = NoSteps
    /\ success' = FALSE
    /\ source' = PyNone
    /\ returned' = PyNone
    /\ pc' = "main"
    /\ UNCHANGED formatter_vars
    /\ UNCHANGED optimizer_vars
    /\ UNCHANGED <<writes, template_vars, config>>

(***************************************************************************)
(* Specification of a batch: a list of input paths, any setting of the two *)
(* switches, any key, and every outcome of the transcription, of the       *)
(* endpoint and of the file system.  With an optimizer the key is set, so  *)
(* the gateway always posts.                                               *)
(***************************************************************************)

MaxVideos == 2

InitBatch ==
    /\ pc = "main"
    /\ text = <<>>
    /\ title = <<>>
    /\ cleaned_text = <<>>
    /\ sentences = <<>>
    /\ next_sentence = 1
    /\ current_paragraph = <<>>
    /\ paragraphs = <<>>
    /\ structure = NoStructure
    /\ formatted_text = <<>>
    /\ api_key \in ApiKeys
    /\ processed_text = <<>>
    /\ requests = 0
    /\ response = NoResponse
    /\ optimized_text = PyNone
    /\ final_text = <<>>
    /\ CallIdle
    /\ TemplateIdle
    /\ config \in [enable_basic_formatting : BOOLEAN, enable_ai_optimization : BOOLEAN]
    /\ queue = [k \in 1..MaxVideos |-> k]
    /\ transcript = PyNone
    /\ steps = NoSteps
    /\ success = FALSE
    /\ results = <<>>

NextBatch ==
    \/ PerformTranscription
    \/ StartFormat
    \/ FormatEnter
    \/ FormatClean
    \/ SplitSentences
    \/ SplitLoop
    \/ SplitReturn
    \/ FormatAnalyze
    \/ GenerateFormattedText
    \/ FormatSave
    \/ RecordFormat
    \/ StartOptimize
    \/ OptimizePreprocess
    \/ CallPost
    \/ CallReturn
    \/ OptimizePostprocess
    \/ OptimizeSave
    \/ RecordOptimize
    \/ FinishVideo

SpecBatch == InitBatch /\ [][NextBatch]_vars

\* a video has a transcript and its documents are being made
MakingDocuments ==
    pc \notin {"main", "video_done"}

\* C28: once a video has its transcript, result.success stays True whatever
\* happens to the two documents; format_transcript is called at most once
\* for a video, and when it is over, failed (also on the file it could not
\* write) or not, the next step is the decision to rewrite, which depends on
\* the optimizer alone; a failed formatting leaves result.steps without
\* 'format' and changes nothing else; a failed rewrite leaves result.steps,
\* the recorded 'format' included, as they are.
C28_SiblingDocuments ==
    [][/\ MakingDocuments => success
       /\ (MakingDocuments /\ pc' # "main") => (success' /\ steps'.transcribe = steps.transcribe)
       /\ pc' = "format_call" => (pc = "step4" /\ steps.format = Missing)
       /\ pc' = "step4" => pc = "main"
       /\ pc = "format_returned" =>
              /\ pc' = "step5"
              /\ returned = PyNone =>
                     (steps' = steps /\ steps.format = Missing /\ writes' = writes)
              /\ returned # PyNone => steps' = [steps EXCEPT !.format = returned]
       /\ pc = "step5" =>
              /\ pc' = IF optimizer_enabled THEN "optimize" ELSE "video_done"
              /\ steps' = steps
       /\ (pc \in {"step5", "optimize", "call", "posted", "returned", "optimize_save",
                   "optimize_returned"}) => steps'.format = steps.format
       /\ pc = "optimize_returned" =>
              /\ pc' = "video_done"
              /\ returned = PyNone => steps' = steps
       /\ pc = "video_done" =>
              results' = Append(results, [input_path |-> Head(queue),
                                          success |-> success, steps |-> steps])
      ]_vars

\* C28 witness: a video whose formatted document could not be written and
\* whose optimized document was made, and a video whose rewrite failed and
\* whose formatted document was made
C28_Witness ==
    /\ pc = "main"
    /\ Len(results) = 2
    /\ results[1].success
    /\ results[1].steps.format = Missing
    /\ results[1].steps.ai_optimization # Missing
    /\ results[2].success
    /\ results[2].steps.format # Missing
    /\ results[2].steps.ai_optimization = Missing
    /\ config.enable_basic_formatting /\ optimizer_enabled

\* the content of the file at a path: what was written there last
FileContent(path) ==
    LET at == {k \in 1..Len(writes) : writes[k].path = path}
    IN  writes[CHOOSE k \in at : \A j \in at : j <= k].content

\* C30: after a batch every video with a formatted document still has it on
\* disk: the file at the output path of its result holds the formatted text
\* of its result, and two videos have different output paths.
C30_NoOverwrite ==
    (pc = "main" /\ queue = <<>>) =>
        /\ \A i \in 1..Len(results) :
               results[i].steps.format # Missing =>
                   FileContent(results[i].steps.format.v.output_path)
                       = results[i].steps.format.v.formatted_text
        /\ \A i, j \in 1..Len(results) :
               (/\ i < j
                /\ results[i].steps.format # Missing
                /\ results[j].steps.format # Missing) =>
                   results[i].steps.format.v.output_path
                       # results[j].steps.format.v.output_path

====
